---- MODULE Spec2Model ----
(***************************************************************************)
(* A model of easyftpd's FTP server core (easy_ftpd/lib/ftpserver.py):     *)
(* one control session (FTPHandler) with its virtual file system           *)
(* (AbstractedFS), the authorizer (DummyAuthorizer) and the data-transfer  *)
(* dispatchers (PassiveDTP, ActiveDTP, DTPHandler) registered in           *)
(* asyncore's socket map, and the server (FTPServer) that accepts further  *)
(* control sessions beside it.                                             *)
(*                                                                         *)
(* Python's sequential methods are written as operators that take the      *)
(* "world" w (the session's attributes, the socket map, the disk, the      *)
(* user table and what the current event has emitted so far) and return    *)
(* the world after the call; each action of the state machine is one       *)
(* asyncore event, run to completion (asyncore is single-threaded).        *)
(*                                                                         *)
(* Strings that the code splits (paths, PORT arguments) are given with     *)
(* their split form in the tables ParsePath and ParsePort.  A byte of a    *)
(* file is told by its place in the file.  Each read of the control        *)
(* socket delivers one command line, but where lines are read in pieces.   *)
(* The functions that are studied for themselves are applied to inputs     *)
(* that calc holds.                                                        *)
(***************************************************************************)
EXTENDS Integers, Sequences, FiniteSets, TLC

VARIABLES self, socket_map, disk, user_table, ftpd, ev, calc

vars == <<self, socket_map, disk, user_table, ftpd, ev, calc>>

(***************************************************************************)
(* Bounds of the model                                                     *)
(***************************************************************************)
\* number of data-transfer dispatchers that can exist at the same time
MaxDtp == 2
\* largest file length / payload, in bytes
MaxBytes == 2
\* largest REST marker a client sends
MaxRest == 3
\* most entries of a data channel's producer_fifo: a client asks for more
\* data only when the two entries of the answer find room
MaxFifo == 2
\* number of control sessions the server can have beside the first
MaxPeers == 2

\* the pieces of a line the input buffer is let hold
MaxPieces == 3

\* largest file that is sent and stored again, in bytes
MaxContent == 3

\* most components of a host path that is validated for itself
MaxComps == 3

\* most transfer commands of a client whose final replies are counted
MaxTransfers == 2

\* FTPHandler.max_login_attempts
max_login_attempts == 3

DtpIds == 1..MaxDtp
\* data_server / data_channel hold a dispatcher id, or None
None == 0

(***************************************************************************)
(* Command tables                                                          *)
(***************************************************************************)
proto_cmds ==
    {"ABOR", "ALLO", "APPE", "CDUP", "CWD", "DELE", "FEAT", "HELP", "LIST",
     "MDTM", "MLSD", "MLST", "MODE", "MKD", "NLST", "NOOP", "PASS", "PASV",
     "PORT", "PWD", "QUIT", "REIN", "REST", "RETR", "RMD", "RNFR", "RNTO",
     "SIZE", "STAT", "STOR", "STOU", "STRU", "SYST", "TYPE", "USER",
     "XCUP", "XCWD", "XMKD", "XPWD", "XRMD"}

unauth_cmds == {"FEAT", "HELP", "NOOP", "PASS", "QUIT", "STAT", "SYST", "USER"}

arg_cmds ==
    {"ALLO", "APPE", "DELE", "MDTM", "MODE", "MKD", "PORT", "REST", "RETR",
     "RMD", "RNFR", "RNTO", "SIZE", "STOR", "STRU", "TYPE", "USER", "XMKD",
     "XRMD"}

unarg_cmds ==
    {"ABOR", "CDUP", "FEAT", "NOOP", "PASV", "PWD", "QUIT", "REIN", "SYST",
     "XCUP", "XPWD"}

\* the validated commands, with RETR forgotten
path_cmds_without_RETR ==
    {"APPE", "CWD", "DELE", "MDTM", "NLST", "MLSD", "MLST", "RMD", "SIZE",
     "STOR", "XCWD", "XRMD"}

\* the commands whose argument found_terminator validates before dispatch
path_cmds ==
    {"APPE", "CWD", "DELE", "MDTM", "NLST", "MLSD", "MLST", "RETR", "RMD",
     "SIZE", "STOR", "XCWD", "XRMD"}

(***************************************************************************)
(* The authorizer                                                          *)
(***************************************************************************)
\* a home directory as configured: its components and whether the string
\* ends with os.sep
HomeDir(comps, sep) == [set |-> TRUE, comps |-> comps, sep |-> sep]

\* AbstractedFS.root before the first login
NoRoot == [set |-> FALSE, comps |-> <<>>, sep |-> FALSE]

UserRecord(pwd, home, perm) == [pwd |-> pwd, home |-> home, perm |-> perm]

\* the users added with add_user
NamedUsers ==
    ("alice" :> UserRecord("secret", HomeDir(<<"home", "alice">>, FALSE), {"r", "w"}))
    @@ ("bob" :> UserRecord("hunter2", HomeDir(<<"home", "bob">>, FALSE), {"r"}))
    @@ ("carol" :> UserRecord("letmein", HomeDir(<<"home", "alice">>, FALSE), {"w"}))

\* add_anonymous: password '', read-only by default
AnonymousUser ==
    "anonymous" :> UserRecord("", HomeDir(<<"home", "ftp">>, TRUE), {"r"})

\* the user tables a server is started with: with and without anonymous
UserTables == {NamedUsers, NamedUsers @@ AnonymousUser}

has_user(users, username) == username \in DOMAIN users

validate_authentication(users, username, password) ==
    users[username].pwd = password

get_home_dir(users, username) == users[username].home

r_perm(users, username) == "r" \in users[username].perm

w_perm(users, username) == "w" \in users[username].perm

(***************************************************************************)
(* Paths.  A path string is kept as the number of its leading separators   *)
(* and its components (the pieces between separators); a host path and a   *)
(* normalized virtual path are the sequence of their components.           *)
(***************************************************************************)
Path(lead, comps) == [lead |-> lead, comps |-> comps]

\* the path arguments clients send, split on "/"
ParsePath ==
    ("" :> Path(0, <<>>))
    @@ ("/" :> Path(1, <<>>))
    @@ ("d" :> Path(0, <<"d">>))
    @@ ("f" :> Path(0, <<"f">>))
    @@ ("n" :> Path(0, <<"n">>))
    @@ (".." :> Path(0, <<"..">>))
    @@ ("d/../f" :> Path(0, <<"d", "..", "f">>))
    @@ ("../../etc" :> Path(0, <<"..", "..", "etc">>))
    @@ ("etc" :> Path(0, <<"etc">>))
    @@ ("//d/." :> Path(2, <<"d", ".">>))
    @@ ("out" :> Path(0, <<"out">>))
    @@ ("out/x" :> Path(0, <<"out", "x">>))
    @@ ("f/x" :> Path(0, <<"f", "x">>))
    @@ ("-a" :> Path(0, <<"-a">>))

PathArgs == DOMAIN ParsePath

\* the host file system when the server starts: its directories, its regular
\* files with their length in bytes, and its symbolic links (link -> absolute
\* target; they form no cycle)
InitDisk ==
    [dirs |-> {<<>>, <<"etc">>, <<"home">>, <<"home", "alice">>,
               <<"home", "alice", "d">>, <<"home", "bob">>, <<"home", "ftp">>},
     files |-> (<<"home", "alice", "f">> :> MaxBytes)
               @@ (<<"home", "bob", "f">> :> MaxBytes),
     links |-> (<<"home", "alice", "out">> :> <<"etc">>)
               @@ (<<"home", "bob", "out">> :> <<"etc">>)]

\* the loop of posixpath.normpath over the components
RECURSIVE NormComps(_, _, _)
NormComps(comps, new, lead) ==
    IF comps = <<>> THEN new
    ELSE LET comp == Head(comps)
             rest == Tail(comps)
         IN  IF comp \in {"", "."} THEN NormComps(rest, new, lead)
             ELSE IF \/ comp # ".."
                     \/ (lead = 0 /\ new = <<>>)
                     \/ (new # <<>> /\ new[Len(new)] = "..")
                  THEN NormComps(rest, Append(new, comp), lead)
                  ELSE IF new # <<>>
                       THEN NormComps(rest, SubSeq(new, 1, Len(new) - 1), lead)
                       ELSE NormComps(rest, new, lead)

\* os.path.normpath: exactly two leading slashes are kept, three or more are one
normpath(p) ==
    LET lead == IF p.lead = 2 THEN 2 ELSE IF p.lead > 0 THEN 1 ELSE 0
    IN  Path(lead, NormComps(p.comps, <<>>, lead))

isabs(p) == p.lead > 0

\* os.path.join(a, b) for a relative b
join(a, b) == Path(a.lead, a.comps \o b.comps)

\* AbstractedFS.ftpnorm on a split path: normalize, collapse the leading
\* separators, fall back on "/" for a result that is not absolute
ftpnormP(fs, p) ==
    LET Collapse(n) == IF n.lead >= 2 THEN Path(1, n.comps) ELSE n
        Absolute(n) == IF ~isabs(n) THEN <<>> ELSE n.comps
    IN  Absolute(Collapse(normpath(IF isabs(p) THEN p ELSE join(Path(1, fs.cwd), p))))

ftpnorm(fs, ftppath) == ftpnormP(fs, ParsePath[ftppath])

\* AbstractedFS.ftp2fs on a split path
ftp2fsP(fs, p) ==
    LET Under(n) == IF normpath(Path(1, fs.root.comps)).comps = <<>>
                    THEN Path(1, n)
                    ELSE join(Path(1, fs.root.comps), Path(0, n))
    IN  normpath(Under(ftpnormP(fs, p))).comps

ftp2fs(fs, ftppath) == ftp2fsP(fs, ParsePath[ftppath])

\* os.path.realpath: resolve the symbolic links met along the path
RECURSIVE Resolve(_, _, _)
Resolve(d, done, rest) ==
    IF rest = <<>> THEN done
    ELSE IF Append(done, Head(rest)) \in DOMAIN d.links
    THEN Resolve(d, <<>>, d.links[Append(done, Head(rest))] \o Tail(rest))
    ELSE Resolve(d, Append(done, Head(rest)), Tail(rest))

realpath(d, path) == Resolve(d, <<>>, path)

\* whether string a is a prefix of string b, for the names of the model
NamePrefix(a, b) == a = b \/ <<a, b>> \in {<<"ftp", "ftpx">>}

IsPrefix(a, b) == Len(a) <= Len(b) /\ SubSeq(b, 1, Len(a)) = a

\* AbstractedFS.validpath.  When self.root does not end with os.sep the
\* prefix is self.root + os.sep (the unresolved root); when it does, the
\* prefix is realpath(self.root), which carries no trailing separator.
validpath(d, fs, path) ==
    LET StartsWith(rpath, rroot) ==
            IF ~fs.root.sep
            THEN IsPrefix(fs.root.comps, rpath)
            ELSE \/ rroot = <<>>
                 \/ /\ Len(rroot) <= Len(rpath)
                    /\ SubSeq(rpath, 1, Len(rroot) - 1) = SubSeq(rroot, 1, Len(rroot) - 1)
                    /\ NamePrefix(rroot[Len(rroot)], rpath[Len(rroot)])
    IN  StartsWith(realpath(d, path), realpath(d, fs.root.comps))

\* a translation that keeps the root in the virtual path
fs2ftp_unstripped(d, fs, fspath) ==
    IF ~validpath(d, fs, fspath) THEN <<>> ELSE fspath

\* AbstractedFS.fs2ftp for a host path that lies lexically under root
fs2ftp(d, fs, fspath) ==
    IF ~validpath(d, fs, fspath) THEN <<>>
    ELSE SubSeq(fspath, Len(fs.root.comps) + 1, Len(fspath))

(***************************************************************************)
(* The host file system behind the os.* wrappers of AbstractedFS           *)
(***************************************************************************)
dirname(path) == IF path = <<>> THEN <<>> ELSE SubSeq(path, 1, Len(path) - 1)

\* the entry a path names, its last component not followed when a link
lpath(d, path) ==
    IF path = <<>> THEN <<>>
    ELSE Append(realpath(d, dirname(path)), path[Len(path)])

Entries(d) == d.dirs \cup DOMAIN d.files \cup DOMAIN d.links

isdir(d, path) == realpath(d, path) \in d.dirs

isfile(d, path) == realpath(d, path) \in DOMAIN d.files

lexists(d, path) == lpath(d, path) \in Entries(d)

\* whether os.listdir(dir) returns any name
HasEntries(d, dir) ==
    LET Some(rdir) == \E e \in Entries(d) : e # <<>> /\ dirname(e) = rdir
    IN  Some(realpath(d, dir))

\* os.path.getsize of an existing file (a directory counts as empty)
getsize(d, path) ==
    LET Size(file) == IF file \in DOMAIN d.files THEN d.files[file] ELSE 0
    IN  Size(realpath(d, path))

\* whether the built-in open(filename, mode) succeeds
CanOpen(d, path, mode) ==
    LET Can(file) ==
            IF mode \in {"r", "r+"} THEN file \in DOMAIN d.files
            ELSE file # <<>> /\ file \notin d.dirs /\ dirname(file) \in d.dirs
    IN  Can(realpath(d, path))

\* the disk after open(filename, mode): "w" creates or truncates, "a" creates
DoOpen(d, path, mode) ==
    LET Do(file) ==
            IF mode = "w" \/ (mode = "a" /\ file \notin DOMAIN d.files)
            THEN [d EXCEPT !.files = (file :> 0) @@ @]
            ELSE d
    IN  Do(realpath(d, path))

\* os.mkdir
CanMkdir(d, path) ==
    LET Can(entry) ==
            /\ path # <<>>
            /\ entry \notin Entries(d)
            /\ dirname(entry) \in d.dirs
    IN  Can(lpath(d, path))

DoMkdir(d, path) == [d EXCEPT !.dirs = @ \cup {lpath(d, path)}]

\* os.rmdir: an empty directory, not a link to one
CanRmdir(d, path) ==
    LET Can(entry) ==
            /\ path # <<>>
            /\ entry \in d.dirs
            /\ ~\E e \in Entries(d) : e # <<>> /\ dirname(e) = entry
    IN  Can(lpath(d, path))

DoRmdir(d, path) == [d EXCEPT !.dirs = @ \ {lpath(d, path)}]

Without(f, x) == [y \in DOMAIN f \ {x} |-> f[y]]

\* os.remove: a file or a link
CanRemove(d, path) == lpath(d, path) \in DOMAIN d.files \cup DOMAIN d.links

DoRemove(d, path) ==
    LET Do(entry) == [d EXCEPT !.files = Without(@, entry),
                               !.links = Without(@, entry)]
    IN  Do(lpath(d, path))

\* os.rename: the source exists, the parent of the destination is a
\* directory, a directory is not moved onto an entry or into itself, a file
\* is not moved onto a directory
CanRename(d, src, dst) ==
    LET Can(s, t) ==
            /\ src # <<>> /\ dst # <<>>
            /\ s \in Entries(d)
            /\ dirname(t) \in d.dirs
            /\ s \in d.dirs => (t \notin Entries(d) /\ ~IsPrefix(s, t))
            /\ s \notin d.dirs => t \notin d.dirs
    IN  Can(lpath(d, src), lpath(d, dst))

DoRename(d, src, dst) ==
    LET Do(s, t) ==
            LET Move(p) == IF IsPrefix(s, p)
                           THEN t \o SubSeq(p, Len(s) + 1, Len(p)) ELSE p
                Kept(f) == IF s \in d.dirs THEN f ELSE Without(f, t)
                Moved(f) == [q \in {Move(p) : p \in DOMAIN f} |->
                                f[CHOOSE p \in DOMAIN f : Move(p) = q]]
            IN  IF s = t THEN d
                ELSE [dirs |-> {Move(p) : p \in d.dirs},
                      files |-> Moved(Kept(d.files)),
                      links |-> Moved(Kept(d.links))]
    IN  Do(lpath(d, src), lpath(d, dst))

(***************************************************************************)
(* The session (FTPHandler) and the dispatchers of the socket map          *)
(***************************************************************************)
\* FTPHandler.remote_ip of the first session
remote_ip == "127.0.0.1"

\* FTPHandler.__init__ and AbstractedFS.__init__; closing is set by
\* close_when_done (the channel closes once its output is flushed), closed
\* by close(); banner tells that the session was greeted with 220
InitHandler ==
    [authenticated |-> FALSE, username |-> "", attempted_logins |-> 0,
     current_type |-> "a", restart_position |-> 0, quit_pending |-> FALSE,
     in_dtp_queue |-> <<>>, out_dtp_queue |-> <<>>,
     data_server |-> None, data_channel |-> None,
     root |-> NoRoot, cwd |-> <<>>, rnfr |-> <<>>,
     remote_ip |-> remote_ip, banner |-> FALSE,
     in_buffer |-> <<>>, in_buffer_len |-> 0,
     closing |-> FALSE, closed |-> FALSE]

\* the control sessions beside the first
PeerIds == 1..MaxPeers

\* a session that is closed and gone
NoHandler == [InitHandler EXCEPT !.closed = TRUE]

\* FTPServer.__init__, with the attributes max_cons and max_cons_per_ip;
\* peers are the FTPHandlers of the sessions beside the first, listening
\* tells that the server's socket is open
FTPServer(cons, cons_per_ip) ==
    [max_cons |-> cons, max_cons_per_ip |-> cons_per_ip, ip_map |-> <<>>,
     peers |-> [p \in PeerIds |-> NoHandler], listening |-> TRUE]

\* list.remove: the first occurrence goes
ListRemove(list, x) ==
    IF \A i \in DOMAIN list : list[i] # x THEN list
    ELSE LET First(i) == SubSeq(list, 1, i - 1) \o SubSeq(list, i + 1, Len(list))
         IN  First(CHOOSE i \in DOMAIN list :
                       list[i] = x /\ \A j \in 1..(i - 1) : list[j] # x)

\* list.count
Count(list, x) == Cardinality({i \in DOMAIN list : list[i] = x})

\* a slot of the socket map that holds no dispatcher
\* (wire: the bytes the peer has received on the connection; asked: the
\* strings and the bytes of the files the session has handed to the channel
\* to send; types: the TYPEs of the file producers among them)
FreeDtp ==
    [kind |-> "free", open |-> FALSE, fifo |-> <<>>, receive |-> FALSE,
     finished |-> FALSE, sent |-> 0, recvd |-> 0, file |-> <<>>,
     wire |-> <<>>, asked |-> <<>>, types |-> {}]

\* PassiveDTP.__init__: a listening socket
NewPassive == [FreeDtp EXCEPT !.kind = "passive", !.open = TRUE]

\* ActiveDTP.__init__: a socket whose connect is in progress
NewActive == [FreeDtp EXCEPT !.kind = "active", !.open = TRUE]

\* DTPHandler.__init__
NewHandler == [FreeDtp EXCEPT !.kind = "handler", !.open = TRUE]

\* what the event being run has done so far: the replies pushed on the
\* control channel, the ftp_* method called, the file-system calls issued,
\* the host paths validpath accepted; net is what the network does during
\* the event (send: the bytes a send() takes, -1 for a socket error; connect:
\* how a connect() ends); dtp is the data channel the event has closed, as
\* it was when it closed; cons is the number of control sessions in the
\* socket map when the event starts
World(h, map, d, users, net, srv, cons) ==
    [h |-> h, map |-> map, disk |-> d, users |-> users, net |-> net,
     ftpd |-> srv, cons |-> cons,
     out |-> <<>>, method |-> "", marg |-> "", ops |-> {}, checked |-> {},
     dtp |-> <<>>, stuck |-> FALSE]

Reply(code, text) == [code |-> code, text |-> text, path |-> <<>>]

ReplyOn(code, text, path) == [code |-> code, text |-> text, path |-> path]

\* FTPHandler.respond
respond(w, resp) == [w EXCEPT !.out = Append(@, resp)]

\* a call of an AbstractedFS / os wrapper on a host path
FsOp(op, path) == [op |-> op, path |-> path]

fscall(w, op, path) == [w EXCEPT !.ops = @ \cup {FsOp(op, path)}]

\* the dispatchers of the session that are registered with the event loop
OpenDtps(map) == {i \in DtpIds : map[i].open}

\* a slot is reusable once its dispatcher is closed and the session holds no
\* reference to it (the object is garbage)
IsFree(w, i) == ~w.map[i].open /\ w.h.data_server # i /\ w.h.data_channel # i

Collect(w) ==
    [w EXCEPT !.map = [i \in DtpIds |-> IF IsFree(w, i) THEN FreeDtp ELSE w.map[i]]]

HasFree(w) == \E i \in DtpIds : IsFree(w, i)

FreeId(w) == CHOOSE i \in DtpIds : IsFree(w, i) /\ \A j \in DtpIds : IsFree(w, j) => i <= j

\* PassiveDTP.close / ActiveDTP.close: asyncore.dispatcher.close
dispatcher_close(w, id) == [w EXCEPT !.map[id].open = FALSE]

\* asynchat.async_chat.close_when_done on the control channel
close_when_done(w) == [w EXCEPT !.h.closing = TRUE]

\* FTPHandler.on_dtp_close
on_dtp_close(w) ==
    [w EXCEPT !.h.data_channel = None, !.h.closing = @ \/ w.h.quit_pending]

\* DTPHandler.close: close the file, drop the queued producers, close the
\* socket, tell the session
DTPHandler_close(w, id) ==
    on_dtp_close([w EXCEPT !.dtp = <<w.map[id]>>,
                           !.map[id].open = FALSE, !.map[id].fifo = <<>>])

\* DTPHandler.handle_close
DTPHandler_handle_close(w, id) ==
    LET Finish(finished) ==
            DTPHandler_close(
                respond([w EXCEPT !.map[id].finished = finished],
                        IF finished THEN Reply(226, "Transfer complete.")
                        ELSE Reply(426, "Connection closed; transfer aborted.")),
                id)
    IN  Finish(w.map[id].receive \/ w.map[id].finished)

\* DTPHandler.handle_error
DTPHandler_handle_error(w, id) ==
    DTPHandler_close(respond(w, Reply(426, "error; transfer aborted.")), id)

\* a listing of n bytes
Text(n) == [i \in 1..n |-> 0]

\* the bytes of a file of length size from offset pos to its end, each byte
\* told by its place in the file
FileBytes(pos, size) == [i \in 1..(size - pos) |-> pos + i]

\* the files are text that ends with os.linesep: the byte at place
\* MaxBytes is a line feed; CarriageReturn is the byte '\r'
LineFeed == MaxBytes

CarriageReturn == -1

\* x.replace(os.linesep, '\r\n')
RECURSIVE Crlf(_)
Crlf(data) ==
    IF data = <<>> THEN <<>>
    ELSE (IF Head(data) = LineFeed THEN <<CarriageReturn, LineFeed>> ELSE <<Head(data)>>)
         \o Crlf(Tail(data))

\* FileProducer.data_wrapper
data_wrapper(type, data) == IF type = "a" THEN Crlf(data) ELSE data

\* the queue entries of DTPHandler.producer_fifo: a string, a FileProducer
\* of a TYPE with the bytes its file has left to read, the None of
\* close_when_done
Str(data) == [t |-> "str", data |-> data, type |-> "", done |-> FALSE]

FileProducer(data, type) == [t |-> "prod", data |-> data, type |-> type, done |-> FALSE]

Eof == [t |-> "eof", data |-> <<>>, type |-> "", done |-> FALSE]

\* FileProducer.more: '' when done, the next chunk, or None once the file is
\* read to its end
more(prod) ==
    IF prod.done THEN <<Str(<<>>), prod>>
    ELSE IF prod.data # <<>>
    THEN <<Str(data_wrapper(prod.type, prod.data)), [prod EXCEPT !.data = <<>>]>>
    ELSE <<Eof, [prod EXCEPT !.done = TRUE]>>

\* DTPHandler.initiate_send
RECURSIVE initiate_send(_, _)
initiate_send(w, id) ==
    IF w.map[id].fifo = <<>> \/ ~w.map[id].open THEN w
    ELSE LET Step(first, rest) ==
                 CASE first.t = "eof" ->
                        DTPHandler_handle_close(
                            [w EXCEPT !.map[id].fifo = rest, !.map[id].finished = TRUE], id)
                   [] first.t = "prod" ->
                        initiate_send([w EXCEPT !.map[id].fifo = more(first) \o rest], id)
                   [] OTHER ->
                        LET Sent(k) ==
                                [w EXCEPT !.map[id].fifo =
                                              IF k = Len(first.data) THEN rest
                                              ELSE <<Str(SubSeq(first.data, k + 1,
                                                                Len(first.data)))>> \o rest,
                                          !.map[id].sent = @ + k,
                                          !.map[id].wire = @ \o SubSeq(first.data, 1, k)]
                        IN  IF w.net.send < 0 THEN DTPHandler_handle_error(w, id)
                            ELSE Sent(IF w.net.send < Len(first.data) THEN w.net.send
                                      ELSE Len(first.data))
         IN  Step(Head(w.map[id].fifo), Tail(w.map[id].fifo))

\* DTPHandler.push
push(w, id, data) ==
    initiate_send([w EXCEPT !.map[id].fifo = Append(@, data),
                            !.map[id].asked = @ \o data.data], id)

\* DTPHandler.push_with_producer
push_with_producer(w, id, producer) ==
    initiate_send([w EXCEPT !.map[id].fifo = Append(@, producer),
                            !.map[id].asked = @ \o producer.data,
                            !.map[id].types = @ \cup {producer.type}], id)

\* DTPHandler.close_when_done
DTPHandler_close_when_done(w, id) ==
    [w EXCEPT !.map[id].fifo = Append(@, Eof)]

\* DTPHandler.enable_receiving, after file_obj is set
enable_receiving(w, id, fd) ==
    [w EXCEPT !.map[id].file = <<fd>>, !.map[id].receive = TRUE]

\* DTPHandler.transfer_in_progress
transfer_in_progress(o) == o.sent + o.recvd # 0

\* the body shared by push_dtp_data and on_dtp_connection: hand the payload
\* to the open data channel, then mark the end of the stream if the channel
\* is still there
SendOn(w, data) ==
    LET Pushed(w1) ==
            IF w1.h.data_channel # None
            THEN DTPHandler_close_when_done(w1, w1.h.data_channel)
            ELSE w1
    IN  Pushed(IF data.isproducer
               THEN push_with_producer(w, w.h.data_channel, data.data)
               ELSE push(w, w.h.data_channel, data.data))

\* if self.data_server: self.data_server.close()
\* self.data_server = None
CloseServer(w) ==
    IF w.h.data_server # None
    THEN [w EXCEPT !.map[w.h.data_server].open = FALSE, !.h.data_server = None]
    ELSE w

\* FTPHandler.on_dtp_connection
on_dtp_connection(w) ==
    LET Queues(w2) ==
            IF w2.h.out_dtp_queue # <<>>
            THEN [SendOn(w2, w2.h.out_dtp_queue[1]) EXCEPT !.h.out_dtp_queue = <<>>]
            ELSE IF w2.h.in_dtp_queue # <<>>
            THEN [enable_receiving(w2, w2.h.data_channel, w2.h.in_dtp_queue[1])
                     EXCEPT !.h.in_dtp_queue = <<>>]
            ELSE w2
    IN  Queues(CloseServer(w))

\* FTPHandler.push_dtp_data
push_dtp_data(w, data, isproducer) ==
    IF w.h.data_channel # None
    THEN SendOn(respond(w, Reply(125, "Data connection already open. Transfer starting.")),
                [data |-> data, isproducer |-> isproducer])
    ELSE [respond(w, Reply(150, "File status okay. About to open data connection."))
             EXCEPT !.h.out_dtp_queue = <<[data |-> data, isproducer |-> isproducer]>>]

\* if self.data_channel: self.data_channel.close()
\* self.data_channel = None
CloseChannel(w) ==
    IF w.h.data_channel # None
    THEN [DTPHandler_close(w, w.h.data_channel) EXCEPT !.h.data_channel = None]
    ELSE w

\* FTPHandler.close that leaves ip_map alone
close_listed(w) ==
    [CloseChannel(CloseServer(w))
        EXCEPT !.h.in_dtp_queue = <<>>, !.h.out_dtp_queue = <<>>, !.h.closed = TRUE]

\* FTPHandler.close
close(w) ==
    [CloseChannel(CloseServer(w))
        EXCEPT !.h.in_dtp_queue = <<>>, !.h.out_dtp_queue = <<>>,
               !.ftpd.ip_map = ListRemove(@, w.h.remote_ip), !.h.closed = TRUE]

\* flush_account without the reset of restart_position
flush_account_keeps_rest(w) ==
    LET Idle(w0) ==
            IF w0.h.data_channel # None
            THEN IF ~transfer_in_progress(w0.map[w0.h.data_channel])
                 THEN CloseChannel(w0) ELSE w0
            ELSE w0
    IN  [CloseServer(Idle(w))
            EXCEPT !.h.rnfr = <<>>, !.h.authenticated = FALSE, !.h.username = "",
                   !.h.attempted_logins = 0, !.h.current_type = "a",
                   !.h.quit_pending = FALSE,
                   !.h.in_dtp_queue = <<>>, !.h.out_dtp_queue = <<>>]

\* FTPHandler.flush_account
flush_account(w) ==
    LET Idle(w0) ==
            IF w0.h.data_channel # None
            THEN IF ~transfer_in_progress(w0.map[w0.h.data_channel])
                 THEN CloseChannel(w0) ELSE w0
            ELSE w0
    IN  [CloseServer(Idle(w))
            EXCEPT !.h.rnfr = <<>>, !.h.authenticated = FALSE, !.h.username = "",
                   !.h.attempted_logins = 0, !.h.current_type = "a",
                   !.h.restart_position = 0, !.h.quit_pending = FALSE,
                   !.h.in_dtp_queue = <<>>, !.h.out_dtp_queue = <<>>]

(***************************************************************************)
(* The network as one event sees it                                        *)
(***************************************************************************)
Net(send, connect) == [send |-> send, connect |-> connect]

\* nothing is sent and no connection is made during the event
Quiet == Net(0, "pending")

SendOutcomes == -1..MaxBytes

\* asyncore.dispatcher.connect: in progress, established at once, or refused
ConnectOutcomes == {"pending", "connected", "refused"}

(***************************************************************************)
(* Data connection set-up (ftp_PORT, ftp_PASV, ActiveDTP, PassiveDTP)      *)
(***************************************************************************)
\* FTPHandler.permit_foreign_addresses
permit_foreign_addresses == FALSE

\* FTPHandler.permit_privileged_ports
permit_privileged_ports == FALSE

\* FTPServer.max_cons and FTPServer.max_cons_per_ip as the class sets them
\* (0: unlimited)
max_cons == 0

max_cons_per_ip == 0

\* the PORT arguments clients send, as line.split(',') and int() see them:
\* err is the exception raised while parsing, if any
PortArg(err, ip, port) == [err |-> err, ip |-> ip, port |-> port]

ParsePort ==
    ("127,0,0,1,4,1" :> PortArg("", "127.0.0.1", 1025))
    @@ ("10,9,8,7,4,1" :> PortArg("", "10.9.8.7", 1025))
    @@ ("127,0,0,1,0,21" :> PortArg("", "127.0.0.1", 21))
    @@ ("127,0,0,1,4,256" :> PortArg("", "127.0.0.1", 1280))
    @@ ("127,0,0,1,a,b" :> PortArg("ValueError", "127.0.0.1", 0))
    @@ ("bogus" :> PortArg("IndexError", "bogus", 0))

PortArgs == DOMAIN ParsePort

\* ActiveDTP.handle_connect: the connected socket is handed to a new
\* DTPHandler, which takes the socket's place in the socket map
ActiveDTP_handle_connect(w, id) ==
    on_dtp_connection(
        [respond(w, Reply(200, "PORT command successful."))
            EXCEPT !.map[id] = NewHandler, !.h.data_channel = id])

\* a dispatcher is created in slot id, the garbage gone
Create(w, id, dtp) == [Collect(w) EXCEPT !.map[id] = dtp]

\* ActiveDTP.__init__
ActiveDTP(w, ip, port) ==
    IF ~HasFree(w) THEN [w EXCEPT !.stuck = TRUE]
    ELSE CASE w.net.connect = "refused" ->
                dispatcher_close(respond(Create(w, FreeId(w), NewActive),
                                         Reply(425, "Can't connect.")),
                                 FreeId(w))
           [] w.net.connect = "connected" ->
                ActiveDTP_handle_connect(Create(w, FreeId(w), NewActive), FreeId(w))
           [] OTHER -> Create(w, FreeId(w), NewActive)

\* self.data_server = self.passive_dtp(self), with PassiveDTP.__init__
PassiveDTP(w) ==
    IF ~HasFree(w) THEN [w EXCEPT !.stuck = TRUE]
    ELSE respond([Create(w, FreeId(w), NewPassive) EXCEPT !.h.data_server = FreeId(w)],
                 Reply(227, "Entering passive mode."))

\* PassiveDTP.handle_accept that closes the listening socket before it looks
\* at the address
PassiveDTP_handle_accept_once(w, id, foreign) ==
    LET Delegate(w1) ==
            IF ~HasFree(w1) THEN [w1 EXCEPT !.stuck = TRUE]
            ELSE on_dtp_connection(
                     [Create(w1, FreeId(w1), NewHandler)
                         EXCEPT !.h.data_channel = FreeId(w1)])
    IN  IF foreign /\ ~permit_foreign_addresses
        THEN respond(dispatcher_close(w, id),
                     Reply(425, "Rejected data connection from foreign address."))
        ELSE Delegate(dispatcher_close(w, id))

\* PassiveDTP.handle_accept
PassiveDTP_handle_accept(w, id, foreign) ==
    LET Delegate(w1) ==
            IF ~HasFree(w1) THEN [w1 EXCEPT !.stuck = TRUE]
            ELSE on_dtp_connection(
                     [Create(w1, FreeId(w1), NewHandler)
                         EXCEPT !.h.data_channel = FreeId(w1)])
    IN  IF foreign /\ ~permit_foreign_addresses
        THEN respond(w, Reply(425, "Rejected data connection from foreign address."))
        ELSE Delegate(dispatcher_close(w, id))

\* len(self._map): the listener, the control channels and the open
\* dispatchers
MapSize(w) == 1 + w.cons + Cardinality(OpenDtps(w.map))

\* the part ftp_PORT and ftp_PASV share: close the existing data server and
\* data channel
CloseDataEndpoints(w) == CloseChannel(CloseServer(w))

\* FTPHandler.handle_error: an exception no handler catches closes the session
handle_error(w) == close(w)

ftp_PORT(w, line) ==
    LET Open(a, w1) ==
            IF w1.ftpd.max_cons # 0 /\ MapSize(w1) >= w1.ftpd.max_cons
            THEN respond(w1, Reply(425, "Too many connections. Can't open data channel."))
            ELSE ActiveDTP(w1, a.ip, a.port)
        Port(a) ==
            CASE a.err = "ValueError" -> respond(w, Reply(501, "Invalid PORT format."))
              [] a.err = "IndexError" -> handle_error(w)
              [] ~permit_foreign_addresses /\ a.ip # w.h.remote_ip ->
                    respond(w, Reply(501, "Can't connect to a foreign address."))
              [] ~permit_privileged_ports /\ a.port < 1024 ->
                    respond(w, Reply(501, "Can't connect over a privileged port."))
              [] OTHER -> Open(a, CloseDataEndpoints(w))
    IN  Port(ParsePort[line])

ftp_PASV(w, line) ==
    LET Open(w1) ==
            IF w1.ftpd.max_cons # 0 /\ MapSize(w1) >= w1.ftpd.max_cons
            THEN respond(w1, Reply(425, "Too many connections. Can't open data channel."))
            ELSE PassiveDTP(w1)
    IN  Open(CloseDataEndpoints(w))

ftp_QUIT(w, line) ==
    IF w.h.data_channel = None
    THEN close_when_done(respond(w, Reply(221, "Goodbye.")))
    ELSE [respond(w, Reply(221, "Goodbye.")) EXCEPT !.h.quit_pending = TRUE]

\* ftp_ABOR that does not ask whether a transfer is in progress
ftp_ABOR_idle(w, line) ==
    LET Channel(w1) ==
            respond(CloseChannel(w1),
                    Reply(225, "ABOR command successful; data channel closed."))
    IN  IF w.h.data_server = None /\ w.h.data_channel = None
        THEN respond(w, Reply(225, "No transfer to abort."))
        ELSE Channel(CloseServer(w))

ftp_ABOR(w, line) ==
    LET Channel(w1) ==
            IF w1.h.data_channel # None
            THEN IF transfer_in_progress(w1.map[w1.h.data_channel])
                 THEN respond(respond(CloseChannel(w1),
                                      Reply(426, "Connection closed; transfer aborted.")),
                              Reply(226, "ABOR command successful."))
                 ELSE respond(CloseChannel(w1),
                              Reply(225, "ABOR command successful; data channel closed."))
            ELSE respond(w1, Reply(225, "ABOR command successful; data channel closed."))
    IN  IF w.h.data_server = None /\ w.h.data_channel = None
        THEN respond(w, Reply(225, "No transfer to abort."))
        ELSE Channel(CloseServer(w))

(***************************************************************************)
(* Transfer commands                                                       *)
(***************************************************************************)
\* the split form of a handler's path argument line
Parsed(line) == ParsePath[line]

\* the split form of self.fs.cwd, the default of the listing commands
CwdPath(w) == Path(1, w.h.cwd)

OSError(w) == respond(w, ReplyOn(550, "OS error.", <<>>))

\* AbstractedFS.get_list_dir and the listing of ftp_NLST: listdir of a
\* directory, lstat of anything else; the listing handed to push_dtp_data
\* is empty for an empty directory
Listing(w, path) ==
    IF ~isdir(w.disk, path) /\ ~lexists(w.disk, path)
    THEN OSError(fscall(w, "lstat", path))
    ELSE push_dtp_data(fscall(w, IF isdir(w.disk, path) THEN "listdir" ELSE "lstat", path),
                       Str(Text(IF isdir(w.disk, path) /\ ~HasEntries(w.disk, path)
                                THEN 0 ELSE 1)),
                       FALSE)

ftp_LIST(w, line) ==
    Listing(w, ftp2fsP(w.h, IF line = "" \/ line \in {"-a", "-l", "-al", "-la"}
                            THEN CwdPath(w) ELSE Parsed(line)))

ftp_NLST(w, line) ==
    Listing(w, ftp2fsP(w.h, IF line = "" THEN CwdPath(w) ELSE Parsed(line)))

ftp_MLST(w, line) ==
    LET Facts(p, path) ==
            IF ~isdir(w.disk, path) /\ ~isfile(w.disk, path)
            THEN OSError(fscall(w, "stat", path))
            ELSE respond(respond(fscall(w, "stat", path),
                                 ReplyOn(250, "-Listing", ftpnormP(w.h, p))),
                         Reply(250, "End MLST."))
        On(p) == Facts(p, ftp2fsP(w.h, p))
    IN  On(IF line = "" THEN CwdPath(w) ELSE Parsed(line))

ftp_MLSD(w, line) ==
    LET Facts(path) ==
            IF ~isdir(w.disk, path)
            THEN respond(fscall(w, "isdir", path), Reply(501, "No such directory."))
            ELSE push_dtp_data(fscall(w, "listdir", path),
                               Str(Text(IF HasEntries(w.disk, path) THEN 1 ELSE 0)),
                               FALSE)
    IN  Facts(ftp2fsP(w.h, IF line = "" THEN CwdPath(w) ELSE Parsed(line)))

\* the REST check RETR and STOR share: the offset must lie within the file
RestOk(w, file) == ~(w.h.restart_position > getsize(w.disk, file))

\* ftp_RETR without the seek to restart_position
ftp_RETR_whole(w, line) ==
    LET Retrieve(file) ==
            IF ~r_perm(w.users, w.h.username)
            THEN respond(w, Reply(550, "Can't RETR: not enough privileges."))
            ELSE IF ~CanOpen(w.disk, file, "r") THEN OSError(fscall(w, "open r", file))
            ELSE IF w.h.restart_position # 0 /\ ~RestOk(w, file)
            THEN respond([fscall(w, "open r", file) EXCEPT !.h.restart_position = 0],
                         Reply(554, "Invalid REST parameter"))
            ELSE push_dtp_data([fscall(w, "open r", file) EXCEPT !.h.restart_position = 0],
                               FileProducer(FileBytes(0, getsize(w.disk, file)),
                                            w.h.current_type),
                               TRUE)
    IN  Retrieve(ftp2fs(w.h, line))

ftp_RETR(w, line) ==
    LET Retrieve(file) ==
            IF ~r_perm(w.users, w.h.username)
            THEN respond(w, Reply(550, "Can't RETR: not enough privileges."))
            ELSE IF ~CanOpen(w.disk, file, "r") THEN OSError(fscall(w, "open r", file))
            ELSE IF w.h.restart_position # 0 /\ ~RestOk(w, file)
            THEN respond([fscall(w, "open r", file) EXCEPT !.h.restart_position = 0],
                         Reply(554, "Invalid REST parameter"))
            ELSE push_dtp_data([fscall(w, "open r", file) EXCEPT !.h.restart_position = 0],
                               FileProducer(FileBytes(w.h.restart_position,
                                                      getsize(w.disk, file)),
                                            w.h.current_type),
                               TRUE)
    IN  Retrieve(ftp2fs(w.h, line))

\* the end of ftp_STOR and ftp_STOU: start receiving, or queue the sink
Receive(w, fd, code125, code150) ==
    IF w.h.data_channel # None
    THEN enable_receiving(respond(w, code125), w.h.data_channel, fd)
    ELSE [respond(w, code150) EXCEPT !.h.in_dtp_queue = <<fd>>]

ftp_STOR_mode(w, line, mode) ==
    LET Opened(w1, file) ==
            IF w.h.restart_position # 0 /\ ~RestOk(w, file)
            THEN respond(w1, Reply(554, "Invalid REST parameter"))
            ELSE Receive(w1, realpath(w1.disk, file),
                         Reply(125, "Data connection already open. Transfer starting."),
                         Reply(150, "File status okay. About to open data connection."))
        Store(file, m) ==
            IF ~w_perm(w.users, w.h.username)
            THEN respond(w, Reply(550, "Can't STOR: not enough privileges."))
            ELSE IF ~CanOpen(w.disk, file, m) THEN OSError(fscall(w, "open w", file))
            ELSE Opened([fscall(w, "open w", file)
                            EXCEPT !.disk = DoOpen(w.disk, file, m),
                                   !.h.restart_position = 0],
                        file)
    IN  Store(ftp2fs(w.h, line), IF w.h.restart_position # 0 THEN "r+" ELSE mode)

\* ftp_STOR(line, mode='w')
ftp_STOR(w, line) == ftp_STOR_mode(w, line, "w")

\* tempfile.mkstemp(prefix=prefix, dir=basedir) names the file it creates:
\* the random part of the name is always the same here, and a second file
\* of that name is not followed
ftp_STOU(w, line) ==
    LET Created(w1, file) ==
            Receive(w1, realpath(w1.disk, file),
                    Reply(125, "FILE: name"), Reply(150, "FILE: name"))
        Unique(basedir, file) ==
            IF w.h.restart_position # 0
            THEN respond(w, Reply(550, "Can't STOU while REST request is pending."))
            ELSE IF ~w_perm(w.users, w.h.username)
            THEN respond(w, Reply(550, "Can't STOU: not enough privileges."))
            ELSE IF ~isdir(w.disk, basedir)
            THEN handle_error(fscall(w, "mkstemp", basedir))
            ELSE IF lexists(w.disk, file) THEN [w EXCEPT !.stuck = TRUE]
            ELSE Created([fscall(w, "mkstemp", basedir)
                             EXCEPT !.disk = DoOpen(w.disk, file, "w")],
                         file)
        Split(basedir, prefix) == Unique(basedir, Append(basedir, prefix \o "tmp"))
        Named(full) ==
            IF line = "" THEN Split(full, "ftpd.")
            ELSE Split(dirname(full), IF full = <<>> THEN "." ELSE full[Len(full)] \o ".")
    IN  Named(IF line = "" THEN ftp2fsP(w.h, CwdPath(w)) ELSE ftp2fs(w.h, line))

ftp_APPE(w, line) ==
    IF w.h.restart_position # 0
    THEN respond(w, Reply(550, "Can't APPE while REST request is pending."))
    ELSE ftp_STOR_mode(w, line, "a")

\* the REST arguments clients send, as int() reads them (-2: ValueError)
ParseInt ==
    ("0" :> 0) @@ ("1" :> 1) @@ ("2" :> 2) @@ ("3" :> 3) @@ ("4" :> 4)
    @@ ("-1" :> -1) @@ ("x" :> -2)

RestArgs == {a \in DOMAIN ParseInt : ParseInt[a] <= MaxRest}

ftp_REST(w, line) ==
    IF ParseInt[line] < 0 THEN respond(w, Reply(501, "Invalid parameter."))
    ELSE [respond(w, Reply(350, "Restarting at position n."))
             EXCEPT !.h.restart_position = ParseInt[line]]

(***************************************************************************)
(* Authentication                                                          *)
(***************************************************************************)
\* str.lower on the user names clients send
Lower(name) == IF name = "Anonymous" THEN "anonymous" ELSE name

\* ftp_USER as RFC 959 has it: 530 for a name the authorizer does not know
ftp_USER_rfc959(w, line) ==
    LET name == IF Lower(line) = "anonymous" THEN "anonymous" ELSE line
        w1 == IF ~has_user(w.users, name)
              THEN respond(w, Reply(530, "Not logged in."))
              ELSE IF ~w.h.authenticated
              THEN respond(w, Reply(331, "Username ok, send password."))
              ELSE respond(flush_account(w),
                           Reply(331, "Previous account information was flushed, send password."))
    IN  [w1 EXCEPT !.h.username = name]

ftp_USER(w, line) ==
    LET name == IF Lower(line) = "anonymous" THEN "anonymous" ELSE line
        w1 == IF ~w.h.authenticated
              THEN respond(w, Reply(331, "Username ok, send password."))
              ELSE respond(flush_account(w),
                           Reply(331, "Previous account information was flushed, send password."))
    IN  [w1 EXCEPT !.h.username = name]

\* ftp_PASS without the check of the password
ftp_PASS_unchecked(w, line) ==
    LET Failed(w1) ==
            IF w1.h.attempted_logins >= max_login_attempts
            THEN close(respond(w1, Reply(530, "Maximum login attempts. Disconnecting.")))
            ELSE IF ~has_user(w.users, w.h.username) /\ Lower(w.h.username) = "anonymous"
            THEN respond(w1, Reply(530, "Anonymous access not allowed."))
            ELSE [respond(w1, Reply(530, "Authentication failed."))
                     EXCEPT !.h.username = ""]
    IN  IF w.h.authenticated THEN respond(w, Reply(503, "User already authenticated."))
        ELSE IF w.h.username = "" THEN respond(w, Reply(503, "Login with USER first."))
        ELSE IF has_user(w.users, w.h.username)
        THEN [respond(w, Reply(230, "Login successful."))
                 EXCEPT !.h.authenticated = TRUE, !.h.attempted_logins = 0,
                        !.h.root = get_home_dir(w.users, w.h.username)]
        ELSE Failed([w EXCEPT !.h.attempted_logins = @ + 1])

\* ftp_PASS that disconnects one attempt late: > for >=
ftp_PASS_late(w, line) ==
    LET Failed(w1) ==
            IF w1.h.attempted_logins > max_login_attempts
            THEN close(respond(w1, Reply(530, "Maximum login attempts. Disconnecting.")))
            ELSE IF ~has_user(w.users, w.h.username) /\ Lower(w.h.username) = "anonymous"
            THEN respond(w1, Reply(530, "Anonymous access not allowed."))
            ELSE [respond(w1, Reply(530, "Authentication failed."))
                     EXCEPT !.h.username = ""]
    IN  IF w.h.authenticated THEN respond(w, Reply(503, "User already authenticated."))
        ELSE IF w.h.username = "" THEN respond(w, Reply(503, "Login with USER first."))
        ELSE IF /\ has_user(w.users, w.h.username)
                /\ \/ validate_authentication(w.users, w.h.username, line)
                   \/ w.h.username = "anonymous"
        THEN [respond(w, Reply(230, "Login successful."))
                 EXCEPT !.h.authenticated = TRUE, !.h.attempted_logins = 0,
                        !.h.root = get_home_dir(w.users, w.h.username)]
        ELSE Failed([w EXCEPT !.h.attempted_logins = @ + 1])

\* ftp_PASS that keeps the name of an unknown user
ftp_PASS_keeps_unknown(w, line) ==
    LET Failed(w1) ==
            IF w1.h.attempted_logins >= max_login_attempts
            THEN close(respond(w1, Reply(530, "Maximum login attempts. Disconnecting.")))
            ELSE IF ~has_user(w.users, w.h.username)
            THEN respond(w1, Reply(530, "Authentication failed."))
            ELSE [respond(w1, Reply(530, "Authentication failed."))
                     EXCEPT !.h.username = ""]
    IN  IF w.h.authenticated THEN respond(w, Reply(503, "User already authenticated."))
        ELSE IF w.h.username = "" THEN respond(w, Reply(503, "Login with USER first."))
        ELSE IF /\ has_user(w.users, w.h.username)
                /\ \/ validate_authentication(w.users, w.h.username, line)
                   \/ w.h.username = "anonymous"
        THEN [respond(w, Reply(230, "Login successful."))
                 EXCEPT !.h.authenticated = TRUE, !.h.attempted_logins = 0,
                        !.h.root = get_home_dir(w.users, w.h.username)]
        ELSE Failed([w EXCEPT !.h.attempted_logins = @ + 1])

\* a failed PASS, for a known and for an unknown user name: the branches
\* differ only in the reply to an unknown "anonymous"
ftp_PASS(w, line) ==
    LET Failed(w1) ==
            IF w1.h.attempted_logins >= max_login_attempts
            THEN close(respond(w1, Reply(530, "Maximum login attempts. Disconnecting.")))
            ELSE IF ~has_user(w.users, w.h.username) /\ Lower(w.h.username) = "anonymous"
            THEN respond(w1, Reply(530, "Anonymous access not allowed."))
            ELSE [respond(w1, Reply(530, "Authentication failed."))
                     EXCEPT !.h.username = ""]
    IN  IF w.h.authenticated THEN respond(w, Reply(503, "User already authenticated."))
        ELSE IF w.h.username = "" THEN respond(w, Reply(503, "Login with USER first."))
        ELSE IF /\ has_user(w.users, w.h.username)
                /\ \/ validate_authentication(w.users, w.h.username, line)
                   \/ w.h.username = "anonymous"
        THEN [respond(w, Reply(230, "Login successful."))
                 EXCEPT !.h.authenticated = TRUE, !.h.attempted_logins = 0,
                        !.h.root = get_home_dir(w.users, w.h.username)]
        ELSE Failed([w EXCEPT !.h.attempted_logins = @ + 1])

ftp_REIN(w, line) == respond(flush_account(w), Reply(230, "Ready for new user."))

(***************************************************************************)
(* File-system commands                                                    *)
(***************************************************************************)
ftp_PWD(w, line) == respond(w, ReplyOn(257, "is the current directory.", w.h.cwd))

\* a CWD that sets cwd before it knows whether the directory can be entered
ftp_CWD_eager(w, line) ==
    LET Entered(w2) == respond(w2, ReplyOn(250, "is the current directory.", w2.h.cwd))
        Enter(path) ==
            IF ~isdir(w.disk, path)
            THEN OSError([fscall(w, "chdir", path) EXCEPT !.h.cwd = fs2ftp(w.disk, w.h, path)])
            ELSE Entered([fscall(w, "chdir", path)
                             EXCEPT !.h.cwd = fs2ftp(w.disk, w.h, path)])
    IN  Enter(ftp2fs(w.h, IF line = "" THEN "/" ELSE line))

\* a CWD that takes every path for one outside the root
ftp_CWD_denied(w, line) ==
    respond(w, ReplyOn(550, "points to a path which is outside the user's root directory.",
                       ftpnorm(w.h, line)))

\* AbstractedFS.chdir enters the directory and, if that works, sets cwd
ftp_CWD(w, line) ==
    LET Entered(w2) == respond(w2, ReplyOn(250, "is the current directory.", w2.h.cwd))
        Enter(path) ==
            IF ~isdir(w.disk, path) THEN OSError(fscall(w, "chdir", path))
            ELSE Entered([fscall(w, "chdir", path)
                             EXCEPT !.h.cwd = fs2ftp(w.disk, w.h, path)])
    IN  Enter(ftp2fs(w.h, IF line = "" THEN "/" ELSE line))

ftp_CDUP(w, line) == ftp_CWD(w, "..")

ftp_SIZE(w, line) ==
    LET Size(path) ==
            IF isdir(w.disk, path)
            THEN respond(fscall(w, "isdir", path),
                         Reply(550, "Could not get a directory size."))
            ELSE IF ~isfile(w.disk, path)
            THEN OSError(fscall(fscall(w, "isdir", path), "getsize", path))
            ELSE respond(fscall(fscall(w, "isdir", path), "getsize", path),
                         Reply(213, "size"))
    IN  Size(ftp2fs(w.h, line))

ftp_MDTM(w, line) ==
    LET Time(path) ==
            IF ~isfile(w.disk, path)
            THEN respond(fscall(w, "isfile", path), Reply(550, "No such file."))
            ELSE respond(fscall(fscall(w, "isfile", path), "getmtime", path),
                         Reply(213, "time"))
    IN  Time(ftp2fs(w.h, line))

ftp_MKD(w, line) ==
    LET Make(path) ==
            IF ~w_perm(w.users, w.h.username)
            THEN respond(w, Reply(550, "Can't MKD: not enough privileges."))
            ELSE IF ~CanMkdir(w.disk, path) THEN OSError(fscall(w, "mkdir", path))
            ELSE respond([fscall(w, "mkdir", path) EXCEPT !.disk = DoMkdir(w.disk, path)],
                         Reply(257, "Directory created."))
    IN  Make(ftp2fs(w.h, line))

\* path == self.fs.root compares strings: a root written with a trailing
\* separator equals no normalized path
ftp_RMD(w, line) ==
    LET Remove(path) ==
            IF path = w.h.root.comps /\ (~w.h.root.sep \/ path = <<>>)
            THEN respond(w, Reply(550, "Can't remove root directory."))
            ELSE IF ~w_perm(w.users, w.h.username)
            THEN respond(w, Reply(550, "Can't RMD: not enough privileges."))
            ELSE IF ~CanRmdir(w.disk, path) THEN OSError(fscall(w, "rmdir", path))
            ELSE respond([fscall(w, "rmdir", path) EXCEPT !.disk = DoRmdir(w.disk, path)],
                         Reply(250, "Directory removed."))
    IN  Remove(ftp2fs(w.h, line))

\* ftp_DELE that asks for the permission to read
ftp_DELE_r_perm(w, line) ==
    LET Remove(path) ==
            IF ~r_perm(w.users, w.h.username)
            THEN respond(w, Reply(550, "Can't DELE: not enough privileges."))
            ELSE IF ~CanRemove(w.disk, path) THEN OSError(fscall(w, "remove", path))
            ELSE respond([fscall(w, "remove", path) EXCEPT !.disk = DoRemove(w.disk, path)],
                         Reply(250, "File removed."))
    IN  Remove(ftp2fs(w.h, line))

ftp_DELE(w, line) ==
    LET Remove(path) ==
            IF ~w_perm(w.users, w.h.username)
            THEN respond(w, Reply(550, "Can't DELE: not enough privileges."))
            ELSE IF ~CanRemove(w.disk, path) THEN OSError(fscall(w, "remove", path))
            ELSE respond([fscall(w, "remove", path) EXCEPT !.disk = DoRemove(w.disk, path)],
                         Reply(250, "File removed."))
    IN  Remove(ftp2fs(w.h, line))

ftp_RNFR(w, line) ==
    LET From(path) ==
            IF ~w_perm(w.users, w.h.username)
            THEN respond(w, Reply(550, "Can't RNRF: not enough privileges."))
            ELSE IF lexists(w.disk, path)
            THEN [respond(fscall(w, "lexists", path),
                          Reply(350, "Ready for destination name."))
                     EXCEPT !.h.rnfr = <<line>>]
            ELSE respond(fscall(w, "lexists", path),
                         Reply(550, "No such file or directory."))
    IN  From(ftp2fs(w.h, line))

\* ftp_RNTO with rnfr reset only by a successful rename
ftp_RNTO_keeps(w, line) ==
    LET Renamed(w2) == [w2 EXCEPT !.h.rnfr = <<>>]
        Rename(src, dst) ==
            IF ~w_perm(w.users, w.h.username)
            THEN respond(w, Reply(550, "Can't RNTO: not enough privileges."))
            ELSE IF ~CanRename(w.disk, src, dst)
            THEN OSError(fscall(fscall(w, "rename", src), "rename", dst))
            ELSE Renamed(respond([fscall(fscall(w, "rename", src), "rename", dst)
                                     EXCEPT !.disk = DoRename(w.disk, src, dst)],
                                 Reply(250, "Renaming ok.")))
    IN  IF w.h.rnfr = <<>>
        THEN respond(w, Reply(503, "Bad sequence of commands: use RNFR first."))
        ELSE Rename(ftp2fs(w.h, w.h.rnfr[1]), ftp2fs(w.h, line))

ftp_RNTO(w, line) ==
    LET Renamed(w2) == [w2 EXCEPT !.h.rnfr = <<>>]
        Rename(src, dst) ==
            IF ~w_perm(w.users, w.h.username)
            THEN Renamed(respond(w, Reply(550, "Can't RNTO: not enough privileges.")))
            ELSE IF ~CanRename(w.disk, src, dst)
            THEN Renamed(OSError(fscall(fscall(w, "rename", src), "rename", dst)))
            ELSE Renamed(respond([fscall(fscall(w, "rename", src), "rename", dst)
                                     EXCEPT !.disk = DoRename(w.disk, src, dst)],
                                 Reply(250, "Renaming ok.")))
    IN  IF w.h.rnfr = <<>>
        THEN respond(w, Reply(503, "Bad sequence of commands: use RNFR first."))
        ELSE Rename(ftp2fs(w.h, w.h.rnfr[1]), ftp2fs(w.h, line))

(***************************************************************************)
(* Session parameters and information commands                             *)
(***************************************************************************)
\* str.upper on the verbs and arguments clients send
upper(s) ==
    CASE s = "noop" -> "NOOP"
      [] s = "Quit" -> "QUIT"
      [] s = "a" -> "A"
      [] s = "i" -> "I"
      [] s = "user" -> "USER"
      [] OTHER -> s

ftp_TYPE(w, line) ==
    IF upper(line) \in {"A", "AN", "A N"}
    THEN [respond(w, Reply(200, "Type set to: ASCII.")) EXCEPT !.h.current_type = "a"]
    ELSE IF upper(line) \in {"I", "L8", "L 8"}
    THEN [respond(w, Reply(200, "Type set to: Binary.")) EXCEPT !.h.current_type = "i"]
    ELSE respond(w, Reply(504, "Unsupported type."))

ftp_STRU(w, line) ==
    IF line \in {"f", "F"} THEN respond(w, Reply(200, "File transfer structure set to: F."))
    ELSE respond(w, Reply(504, "Unimplemented STRU type."))

ftp_MODE(w, line) ==
    IF line \in {"s", "S"} THEN respond(w, Reply(200, "Transfer mode set to: S"))
    ELSE respond(w, Reply(504, "Unimplemented MODE type."))

\* the status lines of ftp_STAT without argument
StatusLines(h) ==
    << IF h.authenticated THEN "Logged in as"
       ELSE IF h.username = "" THEN "Waiting for username." ELSE "Waiting for password.",
       IF h.current_type = "a" THEN "TYPE: ASCII" ELSE "TYPE: Binary",
       IF h.data_server # None THEN "Passive data channel waiting for connection."
       ELSE IF h.data_channel # None THEN "Data connection open:"
       ELSE "Data connection closed." >>

\* AbstractedFS.get_stat_dir for an argument without wildcards: the listing
\* of get_list_dir
ftp_STAT(w, line) ==
    LET Status(path) ==
            respond(respond(fscall(w, IF isdir(w.disk, path) THEN "listdir" ELSE "lstat",
                                   path),
                            ReplyOn(213, "-Status of",
                                    << IF ~isdir(w.disk, path) /\ ~lexists(w.disk, path)
                                       THEN "OS error."
                                       ELSE IF /\ isdir(w.disk, path)
                                               /\ ~HasEntries(w.disk, path)
                                       THEN "Directory is empty."
                                       ELSE "listing" >>)),
                    Reply(213, "End of status."))
    IN  IF line = ""
        THEN respond(respond(w, ReplyOn(211, "-FTP server status:", StatusLines(w.h))),
                     Reply(211, "End of status."))
        ELSE Status(ftp2fs(w.h, line))

ftp_FEAT(w, line) ==
    respond(respond(w, Reply(211, "-Features supported:")), Reply(211, "End FEAT."))

ftp_NOOP(w, line) == respond(w, Reply(250, "I successfully done nothin'."))

ftp_SYST(w, line) == respond(w, Reply(215, "UNIX Type: L8"))

ftp_ALLO(w, line) == respond(w, Reply(202, "No storage allocation necessary."))

ftp_HELP(w, line) ==
    IF line # ""
    THEN IF upper(line) \in proto_cmds THEN respond(w, Reply(214, "help"))
         ELSE respond(w, Reply(501, "Unrecognized command."))
    ELSE respond(respond(w, Reply(214, "-The following commands are recognized:")),
                 Reply(214, "Help command successful."))

ftp_XCUP(w, line) == ftp_CDUP(w, line)

ftp_XCWD(w, line) == ftp_CWD(w, line)

ftp_XMKD(w, line) == ftp_MKD(w, line)

ftp_XPWD(w, line) == ftp_PWD(w, line)

ftp_XRMD(w, line) == ftp_RMD(w, line)

(***************************************************************************)
(* Command dispatch                                                        *)
(***************************************************************************)
cmd_not_understood(w) == respond(w, Reply(500, "Command not understood."))

cmd_missing_arg(w) == respond(w, Reply(501, "Syntax error: command needs an argument."))

cmd_needs_no_arg(w) ==
    respond(w, Reply(501, "Syntax error: command does not accept arguments."))

\* 'ABOR' in cmd, 'STAT' in cmd for the verbs that are no protocol command
Contains(cmd, sub) == cmd = "X" \o sub

\* method(arg), where method is getattr(self, 'ftp_' + cmd)
Call(w, cmd, arg, method(_, _)) ==
    method([w EXCEPT !.method = cmd, !.marg = arg], arg)

\* found_terminator without the check of STAT's argument before login
Route_STAT(w, cmd, arg) ==
    IF arg = "" /\ cmd \in arg_cmds THEN "missing arg"
    ELSE IF arg # "" /\ cmd \in unarg_cmds THEN "needs no arg"
    ELSE IF ~w.h.authenticated
    THEN IF cmd \in unauth_cmds THEN "method"
         ELSE IF cmd \in proto_cmds THEN "530" ELSE "not understood"
    ELSE IF cmd \in proto_cmds
    THEN IF cmd \in path_cmds /\ ~validpath(w.disk, w.h, ftp2fs(w.h, arg))
         THEN "outside" ELSE "method"
    ELSE IF Contains(cmd, "ABOR") THEN "ABOR"
    ELSE IF Contains(cmd, "STAT") THEN "STAT"
    ELSE "not understood"

\* the branch FTPHandler.found_terminator takes for the command cmd
Route(w, cmd, arg) ==
    IF arg = "" /\ cmd \in arg_cmds THEN "missing arg"
    ELSE IF arg # "" /\ cmd \in unarg_cmds THEN "needs no arg"
    ELSE IF ~w.h.authenticated
    THEN IF cmd \in unauth_cmds
         THEN IF cmd = "STAT" /\ arg # "" THEN "530" ELSE "method"
         ELSE IF cmd \in proto_cmds THEN "530" ELSE "not understood"
    ELSE IF cmd \in proto_cmds
    THEN IF cmd \in path_cmds /\ ~validpath(w.disk, w.h, ftp2fs(w.h, arg))
         THEN "outside" ELSE "method"
    ELSE IF Contains(cmd, "ABOR") THEN "ABOR"
    ELSE IF Contains(cmd, "STAT") THEN "STAT"
    ELSE "not understood"

\* the host paths found_terminator passes to validpath before the method
Checked(w, cmd, arg) ==
    IF w.h.authenticated /\ cmd \in proto_cmds /\ cmd \in path_cmds
    THEN {ftp2fs(w.h, arg)} ELSE {}

\* the body of found_terminator on the branch route
Dispatch(w, cmd, arg, route, method(_, _)) ==
    CASE route = "missing arg" -> cmd_missing_arg(w)
      [] route = "needs no arg" -> cmd_needs_no_arg(w)
      [] route = "530" -> respond(w, Reply(530, "Log in with USER and PASS first."))
      [] route = "not understood" -> cmd_not_understood(w)
      [] route = "outside" ->
            respond(w, ReplyOn(550, "points to a path which is outside the user's root directory.",
                               ftpnorm(w.h, arg)))
      [] route = "ABOR" -> Call(w, "ABOR", "", ftp_ABOR)
      [] route = "STAT" -> Call(w, "STAT", "", ftp_STAT)
      [] route = "method" ->
            Call([w EXCEPT !.checked = Checked(w, cmd, arg)], cmd, arg, method)

\* FTPHandler.found_terminator, for the line "verb arg"; method is the
\* attribute ftp_<cmd> of the handler
found_terminator(w, verb, arg, method(_, _)) ==
    Dispatch(w, upper(verb), arg, Route(w, upper(verb), arg), method)

(***************************************************************************)
(* Data channel events                                                     *)
(***************************************************************************)
\* what a recv() on the data socket meets: a chunk, the peer's end of
\* stream, a connection the peer has reset (asyncore's recv calls
\* handle_close and returns '' for both), or another socket error
RecvOutcomes == {"chunk", "eof", "reset", "error"}

\* file_obj.write on the file an upload was opened on; a file unlinked in
\* the meantime is written out of sight
Write(d, fd) ==
    IF fd \in DOMAIN d.files THEN [d EXCEPT !.files[fd] = @ + 1] ELSE d

\* DTPHandler.handle_read; asyncore's recv calls handle_close itself on ''
DTPHandler_handle_read(w, id, outcome) ==
    CASE outcome = "error" -> DTPHandler_handle_error(w, id)
      [] outcome \in {"eof", "reset"} ->
            [DTPHandler_handle_close(w, id) EXCEPT !.map[id].finished = TRUE]
      [] OTHER ->
            [w EXCEPT !.map[id].recvd = @ + 1,
                      !.disk = Write(w.disk, w.map[id].file[1])]

\* DTPHandler.handle_write
DTPHandler_handle_write(w, id) == initiate_send(w, id)

\* DTPHandler.handle_expt
DTPHandler_handle_expt(w, id) ==
    DTPHandler_close(respond(w, Reply(426, "Connection error; transfer aborted.")), id)

\* DTPHandler.readable
readable(o) == o.receive

\* DTPHandler.writable, for a connected socket
writable(o) == o.fifo # <<>>

\* PassiveDTP.handle_close / PassiveDTP.handle_error
PassiveDTP_handle_close(w, id) == dispatcher_close(w, id)

PassiveDTP_handle_error(w, id) == dispatcher_close(w, id)

\* ActiveDTP.handle_error
ActiveDTP_handle_error(w, id) == dispatcher_close(w, id)

(***************************************************************************)
(* The state machine: one step is one event of the asyncore loop, run to   *)
(* completion.                                                             *)
(***************************************************************************)
UserNames == {"alice", "bob", "carol", "anonymous", "Anonymous", "eve"}

Passwords == {"", "secret", "hunter2", "wrong"}

TypeArgs == {"", "a", "I", "E"}

\* the last event: for a command line, its verb and argument, the handler it
\* reached and what the handler was given, the replies put on the control
\* channel, the file-system calls issued, the host paths validpath passed and
\* the data channel the event closed; for a connection to a listening
\* socket, where it comes from; peer is the session the event belongs to
\* (0: the first)
Event(kind, cmd, arg, w) ==
    [kind |-> kind, cmd |-> cmd, arg |-> arg, method |-> w.method, marg |-> w.marg,
     out |-> w.out, ops |-> w.ops, checked |-> w.checked, dtp |-> w.dtp,
     peer |-> 0]

NoEvent ==
    [kind |-> "init", cmd |-> "", arg |-> "", method |-> "", marg |-> "",
     out |-> <<>>, ops |-> {}, checked |-> {}, dtp |-> <<>>, peer |-> 0]

\* FTPHandler.handle: the session is greeted
handle(w) == [respond(w, Reply(220, "Ready.")) EXCEPT !.h.banner = TRUE]

\* x.close() for the FTPHandler x of session p, called from outside its
\* own events
ClosePeer(w, p) ==
    IF w.ftpd.peers[p].closed THEN w
    ELSE [close([w EXCEPT !.h = w.ftpd.peers[p]])
             EXCEPT !.h = w.h, !.ftpd.peers[p] = NoHandler]

RECURSIVE ClosePeers(_, _)
ClosePeers(w, p) ==
    IF p > MaxPeers THEN w ELSE ClosePeers(ClosePeer(w, p), p + 1)

\* FTPServer.close_all, run on the first session's world when
\* serve_forever is interrupted: close() is called on every channel of
\* the socket map, the server's own socket among them
FTPServer_close_all(w) ==
    LET Dispatchers(w1) ==
            [w1 EXCEPT !.map = [i \in DtpIds |-> [w1.map[i] EXCEPT !.open = FALSE]],
                       !.ftpd.listening = FALSE]
    IN  Dispatchers(ClosePeers(IF w.h.closed THEN w ELSE close(w), 1))

\* FTPHandler.handle_max_cons
handle_max_cons(w) ==
    close(respond(w, Reply(421, "Too many connections. Service temporary unavailable.")))

\* FTPHandler.handle_max_cons_per_ip
handle_max_cons_per_ip(w) ==
    close_when_done(respond(w, Reply(421, "Too many connections from the same IP address.")))

\* FTPServer.handle_accept for a connection from ip: w.h becomes the
\* FTPHandler of the new session, which is in the socket map from its
\* construction
FTPServer_handle_accept(w, ip) ==
    LET Accepted(w1) ==
            IF w1.ftpd.max_cons # 0 /\ MapSize(w1) > w1.ftpd.max_cons
            THEN handle_max_cons(w1)
            ELSE IF /\ w1.ftpd.max_cons_per_ip # 0
                    /\ Count(w1.ftpd.ip_map, ip) > w1.ftpd.max_cons_per_ip
            THEN handle_max_cons_per_ip(w1)
            ELSE handle(w1)
    IN  Accepted([w EXCEPT !.h = [InitHandler EXCEPT !.remote_ip = ip],
                           !.cons = @ + 1,
                           !.ftpd.ip_map = Append(@, ip)])

\* no function is applied for itself
Idle == [step |-> "idle"]

\* the first session is accepted by a server with these limits
\* (FTPServer.handle_accept, FTPHandler.handle)
Serving(cons, cons_per_ip) ==
    /\ self = [InitHandler EXCEPT !.banner = TRUE]
    /\ socket_map = [i \in DtpIds |-> FreeDtp]
    /\ disk = InitDisk
    /\ user_table \in UserTables
    /\ ftpd = [FTPServer(cons, cons_per_ip) EXCEPT !.ip_map = <<remote_ip>>]
    /\ ev = NoEvent
    /\ calc = Idle

Init == Serving(max_cons, max_cons_per_ip)

\* the control sessions in the socket map
Controls ==
    (IF self.closed THEN 0 ELSE 1)
    + Cardinality({p \in PeerIds : ~ftpd.peers[p].closed})

Now(net) == World(self, socket_map, disk, user_table, net, ftpd, Controls)

\* where the replies are counted, the number of 125 and 150 and the number
\* of 226 and 426 the session has sent so far
Tally(c, out) ==
    IF c.step # "tally" THEN c
    ELSE [c EXCEPT
            !.started = @ + Cardinality({i \in DOMAIN out : out[i].code \in {125, 150}}),
            !.ended = @ + Cardinality({i \in DOMAIN out : out[i].code \in {226, 426}})]

\* the state the event leaves behind
Commit(w, kind, cmd, arg) ==
    /\ ~w.stuck
    /\ self' = w.h
    /\ socket_map' = Collect(w).map
    /\ disk' = w.disk
    /\ ftpd' = w.ftpd
    /\ ev' = Event(kind, cmd, arg, w)
    /\ calc' = Tally(calc, w.out)
    /\ UNCHANGED user_table

\* FTPHandler.readable: a line is read unless a QUIT is pending (or the
\* session is closed); each recv() brings one line
Readable == ~self.closed /\ ~self.quit_pending

\* the line "verb arg" arrives on the control channel
Command(verb, arg, net, method(_, _)) ==
    Commit(found_terminator(Now(net), verb, arg, method), "cmd", upper(verb), arg)

\* the answer to a command that sends data finds room in the producer_fifo
Room ==
    IF self.data_channel = None THEN TRUE
    ELSE Len(socket_map[self.data_channel].fifo) + 2 <= MaxFifo

Sending == {Net(n, "pending") : n \in SendOutcomes}

Connecting == {Net(0, c) : c \in ConnectOutcomes}

(***************************************************************************)
(* The command lines a client sends: one action per verb, for the          *)
(* arguments (and the behaviours of the network) under consideration       *)
(***************************************************************************)
\* no argument, and one where none is accepted
NoArgs == {"", "x"}

AlloArgs == {"", "1"}

HelpArgs == {"", "user", "XYZZ"}

ModeArgs == {"", "S", "B"}

StruArgs == {"", "F", "R"}

ABOR(args) == \E arg \in args : Readable /\ Command("ABOR", arg, Quiet, ftp_ABOR)

ALLO(args) == \E arg \in args : Readable /\ Command("ALLO", arg, Quiet, ftp_ALLO)

APPE(args, nets) ==
    \E arg \in args, net \in nets : Readable /\ Command("APPE", arg, net, ftp_APPE)

CDUP(args) == \E arg \in args : Readable /\ Command("CDUP", arg, Quiet, ftp_CDUP)

CWD(args) == \E arg \in args : Readable /\ Command("CWD", arg, Quiet, ftp_CWD)

DELE(args) == \E arg \in args : Readable /\ Command("DELE", arg, Quiet, ftp_DELE)

FEAT(args) == \E arg \in args : Readable /\ Command("FEAT", arg, Quiet, ftp_FEAT)

HELP(args) == \E arg \in args : Readable /\ Command("HELP", arg, Quiet, ftp_HELP)

LIST(args, nets) ==
    \E arg \in args, net \in nets : Readable /\ Room /\ Command("LIST", arg, net, ftp_LIST)

MDTM(args) == \E arg \in args : Readable /\ Command("MDTM", arg, Quiet, ftp_MDTM)

MKD(args) == \E arg \in args : Readable /\ Command("MKD", arg, Quiet, ftp_MKD)

MLSD(args, nets) ==
    \E arg \in args, net \in nets : Readable /\ Room /\ Command("MLSD", arg, net, ftp_MLSD)

MLST(args) == \E arg \in args : Readable /\ Command("MLST", arg, Quiet, ftp_MLST)

MODE(args) == \E arg \in args : Readable /\ Command("MODE", arg, Quiet, ftp_MODE)

NLST(args, nets) ==
    \E arg \in args, net \in nets : Readable /\ Room /\ Command("NLST", arg, net, ftp_NLST)

NOOP(args) ==
    \E verb \in {"NOOP", "noop"}, arg \in args : Readable /\ Command(verb, arg, Quiet, ftp_NOOP)

PASS(args) == \E arg \in args : Readable /\ Command("PASS", arg, Quiet, ftp_PASS)

PASV(args) == \E arg \in args : Readable /\ Command("PASV", arg, Quiet, ftp_PASV)

PORT(args, nets) ==
    \E arg \in args, net \in nets : Readable /\ Command("PORT", arg, net, ftp_PORT)

PWD(args) == \E arg \in args : Readable /\ Command("PWD", arg, Quiet, ftp_PWD)

QUIT(args) ==
    \E verb \in {"QUIT", "Quit"}, arg \in args : Readable /\ Command(verb, arg, Quiet, ftp_QUIT)

REIN(args) == \E arg \in args : Readable /\ Command("REIN", arg, Quiet, ftp_REIN)

REST(args) == \E arg \in args : Readable /\ Command("REST", arg, Quiet, ftp_REST)

RETR(args, nets) ==
    \E arg \in args, net \in nets : Readable /\ Room /\ Command("RETR", arg, net, ftp_RETR)

RMD(args) == \E arg \in args : Readable /\ Command("RMD", arg, Quiet, ftp_RMD)

RNFR(args) == \E arg \in args : Readable /\ Command("RNFR", arg, Quiet, ftp_RNFR)

RNTO(args) == \E arg \in args : Readable /\ Command("RNTO", arg, Quiet, ftp_RNTO)

SIZE(args) == \E arg \in args : Readable /\ Command("SIZE", arg, Quiet, ftp_SIZE)

STAT(args) == \E arg \in args : Readable /\ Command("STAT", arg, Quiet, ftp_STAT)

STOR(args, nets) ==
    \E arg \in args, net \in nets : Readable /\ Command("STOR", arg, net, ftp_STOR)

STOU(args, nets) ==
    \E arg \in args, net \in nets : Readable /\ Command("STOU", arg, net, ftp_STOU)

STRU(args) == \E arg \in args : Readable /\ Command("STRU", arg, Quiet, ftp_STRU)

SYST(args) == \E arg \in args : Readable /\ Command("SYST", arg, Quiet, ftp_SYST)

TYPE(args) == \E arg \in args : Readable /\ Command("TYPE", arg, Quiet, ftp_TYPE)

USER(args) == \E arg \in args : Readable /\ Command("USER", arg, Quiet, ftp_USER)

XCUP(args) == \E arg \in args : Readable /\ Command("XCUP", arg, Quiet, ftp_XCUP)

XCWD(args) == \E arg \in args : Readable /\ Command("XCWD", arg, Quiet, ftp_XCWD)

XMKD(args) == \E arg \in args : Readable /\ Command("XMKD", arg, Quiet, ftp_XMKD)

XPWD(args) == \E arg \in args : Readable /\ Command("XPWD", arg, Quiet, ftp_XPWD)

XRMD(args) == \E arg \in args : Readable /\ Command("XRMD", arg, Quiet, ftp_XRMD)

\* verbs that are no protocol command, among them the commands the server
\* does not implement
UnknownVerbs == {"XYZZ", "XABOR", "XSTAT", "ACCT", "SITE", "SMNT"}

\* getattr finds no method for them
NoMethod(w, line) == w

Unknown(verbs) ==
    \E verb \in verbs, arg \in NoArgs : Readable /\ Command(verb, arg, Quiet, NoMethod)

(***************************************************************************)
(* The control channel read in pieces: asynchat hands what a recv() brings *)
(* to collect_incoming_data, and calls found_terminator where it meets the *)
(* CRLF                                                                    *)
(***************************************************************************)
buflimit == 2048

\* s repeated 2^k times
RECURSIVE Doubled(_, _)
Doubled(s, k) == IF k = 0 THEN s ELSE Doubled(s \o s, k - 1)

\* 1024 bytes that hold no space and no CRLF
Padding == Doubled("x", 10)

\* FTPHandler.collect_incoming_data
collect_incoming_data(w, data) ==
    LET w1 == [w EXCEPT !.h.in_buffer = Append(@, data),
                        !.h.in_buffer_len = @ + Len(data)]
    IN  IF w1.h.in_buffer_len > buflimit
        THEN [respond(w1, Reply(500, "Command too long."))
                 EXCEPT !.h.in_buffer = <<>>, !.h.in_buffer_len = 0]
        ELSE w1

\* where a piece of a line holds its first space: what is before it and
\* what is after it
Split(data) ==
    CASE data = "USER alice" -> <<"USER", "alice">>
      [] data = "PASS secret" -> <<"PASS", "secret">>
      [] data = "DELE f" -> <<"DELE", "f">>
      [] data = "OP x" -> <<"OP", "x">>
      [] OTHER -> <<data>>

\* ''.join(seq)
RECURSIVE Join(_)
Join(seq) == IF seq = <<>> THEN "" ELSE Head(seq) \o Join(Tail(seq))

\* line.split(' ')[0] and line[space + 1:], for the line ''.join(in_buffer)
RECURSIVE SplitLine(_)
SplitLine(in_buffer) ==
    IF in_buffer = <<>> THEN <<"", "">>
    ELSE IF Len(Split(Head(in_buffer))) = 2
    THEN <<Split(Head(in_buffer))[1], Split(Head(in_buffer))[2] \o Join(Tail(in_buffer))>>
    ELSE <<Head(in_buffer) \o SplitLine(Tail(in_buffer))[1], SplitLine(Tail(in_buffer))[2]>>

\* getattr(self, 'ftp_' + cmd), for the commands of the lines under
\* consideration
getattr(w, line) ==
    CASE w.method = "USER" -> ftp_USER(w, line)
      [] w.method = "PASS" -> ftp_PASS(w, line)
      [] w.method = "NOOP" -> ftp_NOOP(w, line)
      [] w.method = "DELE" -> ftp_DELE(w, line)
      [] w.method = "QUIT" -> ftp_QUIT(w, line)
      [] w.method = "PWD" -> ftp_PWD(w, line)
      [] w.method = "SYST" -> ftp_SYST(w, line)

\* FTPHandler.found_terminator, from the input buffer
found_line(w) ==
    found_terminator([w EXCEPT !.h.in_buffer = <<>>, !.h.in_buffer_len = 0],
                     SplitLine(w.h.in_buffer)[1], SplitLine(w.h.in_buffer)[2], getattr)

\* a recv() that brings a piece of a line and no CRLF
Piece(pieces) ==
    \E data \in pieces :
        /\ Readable
        /\ Len(self.in_buffer) < MaxPieces
        /\ Commit(collect_incoming_data(Now(Quiet), data), "piece", "", data)

\* a recv() that brings the end of a line with its CRLF
Line(ends) ==
    \E data \in ends :
        /\ Readable
        /\ LET w == collect_incoming_data(Now(Quiet), data)
           IN  Commit(found_line(w), "line", upper(SplitLine(w.h.in_buffer)[1]), data)

(***************************************************************************)
(* The events of the sockets                                               *)
(***************************************************************************)
Is(id, kind) == socket_map[id].open /\ socket_map[id].kind = kind

\* an event of a data endpoint reaches its handler while the endpoint is in
\* the socket map
HandleConnect ==
    \E id \in DtpIds :
        /\ Is(id, "active")
        /\ Commit(ActiveDTP_handle_connect(Now(Quiet), id), "connect", "", "")

ConnectError ==
    \E id \in DtpIds :
        /\ Is(id, "active")
        /\ Commit(ActiveDTP_handle_error(Now(Quiet), id), "connect error", "", "")

HandleAccept ==
    \E id \in DtpIds, foreign \in BOOLEAN :
        /\ Is(id, "passive")
        /\ Commit(PassiveDTP_handle_accept(Now(Quiet), id, foreign), "accept", "",
                  IF foreign THEN "foreign" ELSE "peer")

ListenerClose ==
    \E id \in DtpIds :
        /\ Is(id, "passive")
        /\ Commit(PassiveDTP_handle_close(Now(Quiet), id), "listener close", "", "")

ListenerError ==
    \E id \in DtpIds :
        /\ Is(id, "passive")
        /\ Commit(PassiveDTP_handle_error(Now(Quiet), id), "listener error", "", "")

\* an upload is followed for MaxBytes chunks
HandleRead ==
    \E id \in DtpIds, outcome \in RecvOutcomes :
        /\ Is(id, "handler")
        /\ readable(socket_map[id])
        /\ outcome = "chunk" =>
              /\ socket_map[id].recvd < MaxBytes
              /\ getsize(disk, socket_map[id].file[1]) <= MaxBytes
        /\ Commit(DTPHandler_handle_read(Now(Quiet), id, outcome), "read", "", outcome)

HandleWrite ==
    \E id \in DtpIds, net \in Sending :
        /\ Is(id, "handler")
        /\ writable(socket_map[id])
        /\ Commit(DTPHandler_handle_write(Now(net), id), "write", "", "")

HandleExpt ==
    \E id \in DtpIds :
        /\ Is(id, "handler")
        /\ readable(socket_map[id]) \/ writable(socket_map[id])
        /\ Commit(DTPHandler_handle_expt(Now(Quiet), id), "expt", "", "")

\* FTPHandler.handle_close: the client closes the control connection
HandleClose ==
    /\ ~self.closed
    /\ Commit(close(Now(Quiet)), "close", "", "")

\* the control channel is closed once the output queued before
\* close_when_done is written
Flushed ==
    /\ ~self.closed
    /\ self.closing
    /\ Commit(close(Now(Quiet)), "flushed", "", "")

(***************************************************************************)
(* The server and the sessions beside the first: they connect, send NOOP   *)
(* and QUIT, and go                                                        *)
(***************************************************************************)
\* the addresses clients connect from
Ips == {remote_ip, "10.9.8.7"}

PeerNow(p) ==
    World(ftpd.peers[p], socket_map, disk, user_table, Quiet, ftpd, Controls)

\* the state an event of session p leaves behind
PeerCommit(w, p, kind, cmd, arg) ==
    /\ ftpd' = [w.ftpd EXCEPT !.peers[p] = IF w.h.closed THEN NoHandler ELSE w.h]
    /\ ev' = [Event(kind, cmd, arg, w) EXCEPT !.peer = p]
    /\ UNCHANGED <<self, socket_map, disk, user_table, calc>>

\* a client connects to the server
ServerAccept ==
    \E p \in PeerIds, ip \in Ips :
        /\ ftpd.listening
        /\ ftpd.peers[p].closed
        /\ \A q \in PeerIds : ftpd.peers[q].closed => p <= q
        /\ PeerCommit(FTPServer_handle_accept(PeerNow(p), ip), p, "serve", "", ip)

PeerNOOP ==
    \E p \in PeerIds :
        /\ ~ftpd.peers[p].closed /\ ~ftpd.peers[p].quit_pending
        /\ PeerCommit(found_terminator(PeerNow(p), "NOOP", "", ftp_NOOP),
                      p, "cmd", "NOOP", "")

PeerQUIT ==
    \E p \in PeerIds :
        /\ ~ftpd.peers[p].closed /\ ~ftpd.peers[p].quit_pending
        /\ PeerCommit(found_terminator(PeerNow(p), "QUIT", "", ftp_QUIT),
                      p, "cmd", "QUIT", "")

PeerFlushed ==
    \E p \in PeerIds :
        /\ ~ftpd.peers[p].closed /\ ftpd.peers[p].closing
        /\ PeerCommit(close(PeerNow(p)), p, "flushed", "", "")

\* FTPHandler.handle_close of a session beside the first
PeerClose ==
    \E p \in PeerIds :
        /\ ~ftpd.peers[p].closed
        /\ PeerCommit(close(PeerNow(p)), p, "close", "", "")

\* serve_forever is interrupted and the server shuts down
CloseAll ==
    /\ ftpd.listening
    /\ Commit(FTPServer_close_all(Now(Quiet)), "close_all", "", "")

Commands ==
    \/ ABOR(NoArgs) \/ ALLO(AlloArgs) \/ APPE(PathArgs, Sending)
    \/ CDUP(NoArgs) \/ CWD(PathArgs) \/ DELE(PathArgs) \/ FEAT(NoArgs)
    \/ HELP(HelpArgs) \/ LIST(PathArgs, Sending) \/ MDTM(PathArgs)
    \/ MKD(PathArgs) \/ MLSD(PathArgs, Sending) \/ MLST(PathArgs)
    \/ MODE(ModeArgs) \/ NLST(PathArgs, Sending) \/ NOOP(NoArgs)
    \/ PASS(Passwords) \/ PASV(NoArgs)
    \/ PORT(PortArgs \cup {""}, Connecting) \/ PWD(NoArgs) \/ QUIT(NoArgs)
    \/ REIN(NoArgs) \/ REST(RestArgs \cup {""}) \/ RETR(PathArgs, Sending)
    \/ RMD(PathArgs) \/ RNFR(PathArgs) \/ RNTO(PathArgs) \/ SIZE(PathArgs)
    \/ STAT(PathArgs) \/ STOR(PathArgs, Sending) \/ STOU(PathArgs, Sending)
    \/ STRU(StruArgs) \/ SYST(NoArgs) \/ TYPE(TypeArgs)
    \/ USER(UserNames \cup {""}) \/ Unknown(UnknownVerbs) \/ XCUP(NoArgs)
    \/ XCWD(PathArgs) \/ XMKD(PathArgs) \/ XPWD(NoArgs) \/ XRMD(PathArgs)

Events ==
    \/ HandleConnect \/ ConnectError \/ HandleAccept \/ ListenerClose
    \/ ListenerError \/ HandleRead \/ HandleWrite \/ HandleExpt
    \/ HandleClose \/ Flushed

Next == Commands \/ Events

Spec == Init /\ [][Next]_vars

(***************************************************************************)
(* Logging in and out: clients that send every line of the login dialogue, *)
(* with a little of the session for an account flush to reset              *)
(***************************************************************************)
NextLogin ==
    \/ USER(UserNames \cup {""}) \/ PASS(Passwords) \/ REIN(NoArgs)
    \/ QUIT(NoArgs) \/ NOOP(NoArgs) \/ TYPE({"I"}) \/ CWD({"d"}) \/ PASV({""})
    \/ HandleClose \/ Flushed

SpecLogin == Init /\ [][NextLogin]_vars

(***************************************************************************)
(* The login gate: clients that send every verb, before and after logging  *)
(* in as bob, who may only read                                            *)
(***************************************************************************)
NextGate ==
    \/ ABOR(NoArgs) \/ ALLO(AlloArgs) \/ APPE({"", "f"}, {Quiet})
    \/ CDUP(NoArgs) \/ CWD({"", "d"}) \/ DELE({"", "f"}) \/ FEAT(NoArgs)
    \/ HELP(HelpArgs) \/ LIST({"", "d"}, {Quiet}) \/ MDTM({"", "f"})
    \/ MKD({"", "n"}) \/ MLSD({"", "f"}, {Quiet}) \/ MLST({"", "f"})
    \/ MODE(ModeArgs) \/ NLST({"", "n"}, {Quiet}) \/ NOOP(NoArgs)
    \/ PASS({"hunter2", "wrong"}) \/ PASV(NoArgs)
    \/ PORT({"", "127,0,0,1,0,21"}, {Quiet}) \/ PWD(NoArgs) \/ QUIT(NoArgs)
    \/ REIN(NoArgs) \/ REST({"", "x"}) \/ RETR({"", "n"}, {Quiet})
    \/ RMD({"", "n"}) \/ RNFR({"", "f"}) \/ RNTO({"", "n"}) \/ SIZE({"", "f"})
    \/ STAT({"", "f"}) \/ STOR({"", "n"}, {Quiet}) \/ STOU({"", "n"}, {Quiet})
    \/ STRU(StruArgs) \/ SYST(NoArgs) \/ TYPE({"", "E"})
    \/ USER({"", "bob", "eve"}) \/ Unknown(UnknownVerbs) \/ XCUP(NoArgs)
    \/ XCWD({"", "d"}) \/ XMKD({"", "n"}) \/ XPWD(NoArgs) \/ XRMD({"", "n"})
    \/ HandleClose

SpecGate == Init /\ [][NextGate]_vars

(***************************************************************************)
(* Paths: alice, whose home holds a link that leaves it, sends the         *)
(* commands that take a path, with a REST, a RNFR, a listener and a        *)
(* listing pending                                                         *)
(***************************************************************************)
NextPaths ==
    \/ USER({"alice"}) \/ PASS({"secret"}) \/ REST({"1"}) \/ PASV({""})
    \/ APPE({"out"}, {Quiet}) \/ CWD({"out", "d"}) \/ DELE({"out/x"})
    \/ MDTM({"out"}) \/ NLST({"out"}, {Quiet}) \/ MLSD({"out"}, {Quiet})
    \/ MLST({"out/x"}) \/ RETR({"out/x", "n"}, {Quiet}) \/ RMD({"out"})
    \/ SIZE({"out", "n"}) \/ STOR({"out/x"}, {Quiet}) \/ XCWD({"out"})
    \/ XRMD({"out/x"}) \/ LIST({"out"}, {Quiet}) \/ STAT({"out"})
    \/ MKD({"out/x"}) \/ RNFR({"out"})

SpecPaths == Init /\ [][NextPaths]_vars

(***************************************************************************)
(* Reinitialisation: alice changes what a session remembers, and sends     *)
(* REIN                                                                    *)
(***************************************************************************)
NextReset ==
    \/ USER({"alice"}) \/ PASS({"secret", "wrong"}) \/ REIN(NoArgs)
    \/ TYPE({"I"}) \/ REST({"1"}) \/ RNFR({"f"}) \/ CWD({"d"}) \/ PASV({""})
    \/ LIST({""}, Sending) \/ STOR({"f"}, {Quiet}) \/ HandleAccept

SpecReset == Init /\ [][NextReset]_vars

(***************************************************************************)
(* Permissions: bob, who may only read, and carol, who may only write,     *)
(* send the commands that read and change files                            *)
(***************************************************************************)
NextPerm ==
    \/ USER({"bob", "carol"}) \/ PASS({"hunter2", "letmein"}) \/ REST({"1"})
    \/ STOR({"f/x", "d"}, {Quiet}) \/ APPE({"d"}, {Quiet})
    \/ STOU({"f/x"}, {Quiet}) \/ MKD({"d", "n"}) \/ XMKD({"d"})
    \/ RMD({"/", "f"}) \/ XRMD({"f"}) \/ DELE({"d"})
    \/ RNFR({"f"}) \/ RNTO({"f"}) \/ RETR({"f"}, {Quiet})

SpecPerm == Init /\ [][NextPerm]_vars

(***************************************************************************)
(* Data connections: alice opens active and passive data connections and   *)
(* asks for a listing, and the sockets have their events                   *)
(***************************************************************************)
NextData ==
    \/ USER({"alice"}) \/ PASS({"secret"})
    \/ PORT({"127,0,0,1,4,1"}, Connecting) \/ PASV({""}) \/ ABOR({""})
    \/ LIST({""}, {Quiet}) \/ HandleConnect \/ ConnectError \/ HandleAccept
    \/ ListenerClose \/ ListenerError \/ HandleWrite \/ HandleExpt
    \/ HandleClose

SpecData == Init /\ [][NextData]_vars

\* the event loop gets to every socket that has an event: a connect in
\* progress ends, established or failed
SpecConnect == SpecData /\ WF_vars(HandleConnect \/ ConnectError)

(***************************************************************************)
(* alice downloads her file, whole or from a REST marker, over a passive   *)
(* data connection                                                         *)
(***************************************************************************)
NextRetr ==
    \/ USER({"alice"}) \/ PASS({"secret"}) \/ TYPE({"I"}) \/ REST(RestArgs)
    \/ PASV({""}) \/ RETR({"f"}, Sending) \/ HandleAccept \/ HandleWrite

SpecRetr == Init /\ [][NextRetr]_vars

(***************************************************************************)
(* alice sends PORT with well-formed and malformed arguments, with or      *)
(* without a passive listener or a data channel in place                   *)
(***************************************************************************)
NextPort ==
    \/ USER({"alice"}) \/ PASS({"secret"}) \/ PASV({""})
    \/ PORT(PortArgs, Connecting) \/ HandleConnect \/ HandleAccept

SpecPort == Init /\ [][NextPort]_vars

(***************************************************************************)
(* alice quits, with or without a data channel open, idle or sending a     *)
(* listing; the peer keeps its sockets open and reads what it is sent, and *)
(* the event loop gets to every socket that select() reports               *)
(***************************************************************************)
NextQuit ==
    \/ USER({"alice"}) \/ PASS({"secret"}) \/ PASV({""}) \/ QUIT({""})
    \/ LIST({""}, {Quiet}) \/ HandleAccept \/ HandleWrite \/ Flushed

SpecQuit == Init /\ [][NextQuit]_vars /\ WF_vars(HandleWrite) /\ WF_vars(Flushed)

(***************************************************************************)
(* A server with or without limits on the connections: clients connect     *)
(* from two addresses and go, while alice logs in on the first session,    *)
(* opens a passive data connection and leaves                              *)
(***************************************************************************)
\* the values of max_cons and max_cons_per_ip the server is run with
ConsLimits == {0, 3}

ConsPerIpLimits == {0, 1}

InitServer == \E cons \in ConsLimits, cons_per_ip \in ConsPerIpLimits : Serving(cons, cons_per_ip)

NextServer ==
    \/ USER({"alice"}) \/ PASS({"secret"}) \/ PASV({""}) \/ HandleClose
    \/ ServerAccept \/ PeerNOOP \/ PeerQUIT \/ PeerFlushed \/ PeerClose

SpecServer == InitServer /\ [][NextServer]_vars

(***************************************************************************)
(* The ways a session ends: QUIT with or without a data channel, too many  *)
(* failed logins, the limits on the connections, the client going away,    *)
(* the server shutting down                                                *)
(***************************************************************************)
NextSessions ==
    \/ USER({"alice"}) \/ PASS({"secret", "wrong"}) \/ PASV({""}) \/ QUIT({""})
    \/ LIST({""}, {Quiet}) \/ HandleAccept \/ HandleExpt \/ Flushed \/ HandleClose
    \/ ServerAccept \/ PeerFlushed \/ PeerClose \/ CloseAll

SpecSessions == InitServer /\ [][NextSessions]_vars

(***************************************************************************)
(* alice renames files and directories                                     *)
(***************************************************************************)
NextRename ==
    \/ USER({"alice"}) \/ PASS({"secret"}) \/ CWD({"d"}) \/ REIN({""})
    \/ RNFR({"f", "n", "d"}) \/ RNTO({"", "n", "d"})

SpecRename == Init /\ [][NextRename]_vars

(***************************************************************************)
(* alice asks for a listing and an upload before and after the passive     *)
(* data connection is made                                                 *)
(***************************************************************************)
NextQueue ==
    \/ USER({"alice"}) \/ PASS({"secret"}) \/ PASV({""})
    \/ LIST({""}, {Quiet}) \/ STOR({"n"}, {Quiet})
    \/ HandleAccept \/ HandleWrite \/ HandleExpt

SpecQueue == Init /\ [][NextQueue]_vars

(***************************************************************************)
(* alice aborts listings and uploads, before and after bytes have moved    *)
(***************************************************************************)
NextAbort ==
    \/ USER({"alice"}) \/ PASS({"secret"}) \/ PASV({""}) \/ ABOR({""})
    \/ LIST({""}, {Quiet}) \/ STOR({"n"}, {Quiet})
    \/ HandleAccept \/ HandleWrite \/ HandleRead

SpecAbort == Init /\ [][NextAbort]_vars

(***************************************************************************)
(* Lines in pieces: a client whose lines reach the server in several       *)
(* reads, some of them longer than the input buffer allows                 *)
(***************************************************************************)
NextLine ==
    \/ Piece({Padding, "NO"})
    \/ Line({"", "USER alice", "PASS secret", "NOOP", "OP x", "DELE f", "PWD", "QUIT"})
    \/ Flushed

SpecLine == Init /\ [][NextLine]_vars

(***************************************************************************)
(* A file in TYPE A, there and back: what FileProducer makes of the file   *)
(* is received in chunks and written through the wrapper of                *)
(* enable_receiving                                                        *)
(***************************************************************************)
\* x.replace('\r\n', os.linesep)
RECURSIVE Linesep(_)
Linesep(data) ==
    IF data = <<>> THEN <<>>
    ELSE IF Len(data) >= 2 /\ data[1] = CarriageReturn /\ data[2] = LineFeed
    THEN <<LineFeed>> \o Linesep(SubSeq(data, 3, Len(data)))
    ELSE <<Head(data)>> \o Linesep(Tail(data))

\* the data_wrapper DTPHandler.enable_receiving sets
receive_wrapper(type, data) == IF type = "a" THEN Linesep(data) ELSE data

\* the bytes of the files: a letter, '\n' and '\r'
Letter == 0

Bytes == {Letter, LineFeed, CarriageReturn}

\* the files of at most MaxContent bytes
Contents == UNION {[1..n -> Bytes] : n \in 0..MaxContent}

Idling == UNCHANGED <<self, socket_map, disk, user_table, ftpd, ev>>

\* FileProducer.more reads the file, which is shorter than out_buffer_size
Produce ==
    /\ calc.step = "file"
    /\ calc' = [calc EXCEPT !.step = "wire",
                            !.wire = more(FileProducer(calc.file, calc.type))[1].data]
    /\ Idling

\* DTPHandler.handle_read: recv() brings the next n bytes, which are
\* written to the file through the wrapper
Consume ==
    \E n \in 1..MaxContent + MaxContent :
        /\ calc.step = "wire"
        /\ n <= Len(calc.wire)
        /\ calc' = [calc EXCEPT
                       !.wire = SubSeq(@, n + 1, Len(@)),
                       !.stored = @ \o receive_wrapper(calc.type, SubSeq(calc.wire, 1, n)),
                       !.chunks = @ + 1]
        /\ Idling

\* DTPHandler.handle_read: recv() brings '', the end of the stream
Finish ==
    /\ calc.step = "wire"
    /\ calc.wire = <<>>
    /\ calc' = [calc EXCEPT !.step = "done"]
    /\ Idling

InitAscii ==
    /\ self = [InitHandler EXCEPT !.banner = TRUE]
    /\ socket_map = [i \in DtpIds |-> FreeDtp]
    /\ disk = InitDisk
    /\ user_table \in UserTables
    /\ ftpd = [FTPServer(max_cons, max_cons_per_ip) EXCEPT !.ip_map = <<remote_ip>>]
    /\ ev = NoEvent
    /\ \E file \in Contents :
           calc = [step |-> "file", type |-> "a", file |-> file, wire |-> <<>>,
                   stored |-> <<>>, chunks |-> 0]

NextAscii == Produce \/ Consume \/ Finish

SpecAscii == InitAscii /\ [][NextAscii]_vars

(***************************************************************************)
(* Sending: a client that asks for the next file or listing before the     *)
(* transfer under way on the data channel has ended                        *)
(***************************************************************************)
\* the next command is sent while the answers to at most two are queued
RoomForMore ==
    IF self.data_channel = None THEN TRUE
    ELSE Len(socket_map[self.data_channel].fifo) + 2 <= MaxFifo + MaxFifo

LISTMore(args, nets) ==
    \E arg \in args, net \in nets :
        Readable /\ RoomForMore /\ Command("LIST", arg, net, ftp_LIST)

RETRMore(args, nets) ==
    \E arg \in args, net \in nets :
        Readable /\ RoomForMore /\ Command("RETR", arg, net, ftp_RETR)

NextSend ==
    \/ USER({"alice"}) \/ PASS({"secret"}) \/ TYPE({"I"}) \/ PASV({""})
    \/ LISTMore({""}, Sending) \/ RETRMore({"f"}, Sending)
    \/ HandleAccept \/ HandleWrite

SpecSend == Init /\ [][NextSend]_vars

(***************************************************************************)
(* validpath for itself: roots written with and without a trailing         *)
(* separator, one of them a symbolic link, and the host paths of a few     *)
(* names                                                                   *)
(***************************************************************************)
\* the disk with /pub, a symbolic link to /home/ftp
LinkedDisk == [InitDisk EXCEPT !.links = @ @@ (<<"pub">> :> <<"home", "ftp">>)]

Roots ==
    {HomeDir(<<"home", "ftp">>, FALSE), HomeDir(<<"home", "ftp">>, TRUE),
     HomeDir(<<"home", "alice">>, FALSE), HomeDir(<<"home", "alice">>, TRUE),
     HomeDir(<<"pub">>, FALSE), HomeDir(<<"pub">>, TRUE), HomeDir(<<>>, TRUE)}

\* the host paths of at most MaxComps components
HostPaths == UNION {[1..n -> {"home", "ftp", "ftpx", "pub"}] : n \in 0..MaxComps}

\* self.fs.validpath(path)
Validate ==
    /\ calc.step = "path"
    /\ calc' = [calc EXCEPT !.step = "valid",
                            !.valid = validpath(LinkedDisk, [root |-> calc.root], calc.path)]
    /\ Idling

\* the next path is looked at
Another ==
    /\ calc.step = "valid"
    /\ \E path \in HostPaths :
           calc' = [calc EXCEPT !.step = "path", !.path = path, !.valid = FALSE]
    /\ Idling

InitValid ==
    /\ self = [InitHandler EXCEPT !.banner = TRUE]
    /\ socket_map = [i \in DtpIds |-> FreeDtp]
    /\ disk = LinkedDisk
    /\ user_table \in UserTables
    /\ ftpd = [FTPServer(max_cons, max_cons_per_ip) EXCEPT !.ip_map = <<remote_ip>>]
    /\ ev = NoEvent
    /\ \E root \in Roots, path \in HostPaths :
           calc = [step |-> "path", root |-> root, path |-> path, valid |-> FALSE]

NextValid == Validate \/ Another

SpecValid == InitValid /\ [][NextValid]_vars

(***************************************************************************)
(* The translations of paths for themselves: every root, every cwd and     *)
(* the paths a client can write with a few names                           *)
(***************************************************************************)
\* the values of cwd
VirtualPaths == UNION {[1..n -> {"d", "out"}] : n \in 0..2}

\* what clients send: relative and absolute, with "." and "..", with empty
\* components (doubled separators)
ClientPaths ==
    {Path(lead, comps) :
        lead \in 0..2,
        comps \in UNION {[1..n -> {"d", "out", ".", "..", ""}] : n \in 0..MaxComps}}

\* fs2ftp(ftp2fs(p)), with the ftp2fs(p) it goes through
Translate ==
    /\ calc.step = "path"
    /\ LET fs == [root |-> calc.root, cwd |-> calc.cwd]
       IN  calc' = [calc EXCEPT !.step = "ftp",
                               !.fspath = ftp2fsP(fs, calc.p),
                               !.ftp = fs2ftp(LinkedDisk, fs, ftp2fsP(fs, calc.p))]
    /\ Idling

InitTranslate ==
    /\ self = [InitHandler EXCEPT !.banner = TRUE]
    /\ socket_map = [i \in DtpIds |-> FreeDtp]
    /\ disk = LinkedDisk
    /\ user_table = NamedUsers
    /\ ftpd = [FTPServer(max_cons, max_cons_per_ip) EXCEPT !.ip_map = <<remote_ip>>]
    /\ ev = NoEvent
    /\ \E root \in Roots, cwd \in VirtualPaths, p \in ClientPaths :
           calc = [step |-> "path", root |-> root, cwd |-> cwd, p |-> p,
                   fspath |-> <<>>, ftp |-> <<>>]

NextTranslate == Translate

SpecTranslate == InitTranslate /\ [][NextTranslate]_vars

(***************************************************************************)
(* The working directory: clients that change it by every kind of path,    *)
(* make the directory etc in their home, and log in again as another user  *)
(***************************************************************************)
NextCwd ==
    \/ USER({"alice", "bob"}) \/ PASS({"secret", "hunter2"}) \/ REIN({""})
    \/ MKD({"etc"}) \/ RMD({"d"})
    \/ CWD({"", "/", "d", "n", "..", "../../etc", "d/../f", "//d/.", "out"})
    \/ CDUP({""}) \/ XCUP({""}) \/ XCWD({"d"})

SpecCwd == Init /\ [][NextCwd]_vars

(***************************************************************************)
(* Final replies: a client that asks for a data connection first, and then *)
(* for listings without waiting for the end of the one before; the         *)
(* connection is made and the peer reads what it is sent                   *)
(***************************************************************************)
\* the writes of a peer that reads: none fails
Reading == {Net(n, "pending") : n \in 0..MaxBytes}

\* the login of a client that logs in once
LogIn == ~self.authenticated /\ (USER({"alice"}) \/ PASS({"secret"}))

\* PASV of a client that has no data connection and none asked for
PASVFirst == self.data_server = None /\ self.data_channel = None /\ PASV({""})

\* LIST of a client that has asked for a data connection
LISTNext ==
    /\ self.data_server # None \/ self.data_channel # None
    /\ calc.started < MaxTransfers
    /\ LISTMore({""}, Reading)

\* the data socket is writable and the peer takes what is written
PeerReads ==
    \E id \in DtpIds, net \in Reading :
        /\ Is(id, "handler")
        /\ writable(socket_map[id])
        /\ Commit(DTPHandler_handle_write(Now(net), id), "write", "", "")

InitFinal ==
    /\ self = [InitHandler EXCEPT !.banner = TRUE]
    /\ socket_map = [i \in DtpIds |-> FreeDtp]
    /\ disk = InitDisk
    /\ user_table \in UserTables
    /\ ftpd = [FTPServer(max_cons, max_cons_per_ip) EXCEPT !.ip_map = <<remote_ip>>]
    /\ ev = NoEvent
    /\ calc = [step |-> "tally", started |-> 0, ended |-> 0]

NextFinal ==
    \/ LogIn \/ TYPE({"I"}) \/ PASVFirst \/ LISTNext \/ HandleAccept \/ PeerReads

SpecFinal ==
    InitFinal /\ [][NextFinal]_vars /\ WF_vars(HandleAccept) /\ WF_vars(PeerReads)

(***************************************************************************)
(* Properties                                                              *)
(***************************************************************************)
\* the step is the command line of a client
IsCommand == ev'.kind = "cmd"

\* the step is a PASS that the authorizer is asked about and that fails
FailedPass ==
    /\ IsCommand /\ ev'.method = "PASS"
    /\ ~self.authenticated /\ self.username # "" /\ ~self'.authenticated

\* the user table with name in it, under a password no client sends, and
\* the user table without name
WithUser(name) ==
    (name :> UserRecord("another password", HomeDir(<<"home">>, FALSE), {"r"}))
    @@ user_table

WithoutUser(name) == [u \in DOMAIN user_table \ {name} |-> user_table[u]]

\* the step's line, had the authorizer the user table users
PassUnder(users) ==
    found_terminator(World(self, socket_map, disk, users, Quiet, ftpd, Controls), "PASS", ev'.arg,
                     ftp_PASS)

UserUnder(users) ==
    found_terminator(World(self, socket_map, disk, users, Quiet, ftpd, Controls), "USER", ev'.arg,
                     ftp_USER)

Refused(cmd) == <<Reply(550, "Can't " \o cmd \o ": not enough privileges.")>>

\* C1: a session has at most one data endpoint (a listening PassiveDTP, a
\* connecting ActiveDTP or an open DTPHandler) registered at any time
C1_OneEndpoint == Cardinality(OpenDtps(socket_map)) <= 1

\* C2: a session becomes authenticated only by a PASS that follows a USER,
\* for a name the authorizer knows and a password it validates (or the name
\* "anonymous"), with attempted_logins 0 at that moment; an authenticated
\* session has a non-empty username and the home directory of that user as
\* its root
C2_Login ==
    /\ [](self.authenticated =>
            /\ self.username # ""
            /\ has_user(user_table, self.username)
            /\ self.root = get_home_dir(user_table, self.username))
    /\ [][(~self.authenticated /\ self'.authenticated) =>
            /\ IsCommand /\ ev'.method = "PASS"
            /\ self.username # "" /\ self'.username = self.username
            /\ has_user(user_table, self.username)
            /\ \/ user_table[self.username].pwd = ev'.arg
               \/ self.username = "anonymous"
            /\ self'.attempted_logins = 0]_vars

C2_LoggedIn ==
    /\ ev.kind = "cmd" /\ ev.method = "PASS" /\ self.authenticated
    /\ self.username = "alice" /\ self.root = HomeDir(<<"home", "alice">>, FALSE)

\* C3: before login the only handlers invoked are those of FEAT, HELP, NOOP,
\* PASS, QUIT, STAT, SYST and USER, STAT only without argument; any other
\* known command is answered 530 (or 501 by the argument check) and an
\* unknown one 500, and nothing of the session, the data endpoints or the
\* file system is touched
C3_Gate ==
    [][(IsCommand /\ ~self.authenticated) =>
          IF ev'.method # ""
          THEN /\ ev'.method \in {"FEAT", "HELP", "NOOP", "PASS", "QUIT", "STAT",
                                  "SYST", "USER"}
               /\ ev'.method = "STAT" => ev'.marg = ""
          ELSE /\ Len(ev'.out) = 1
               /\ IF ev'.cmd \in proto_cmds
                  THEN ev'.out[1].code \in {530, 501}
                  ELSE ev'.out[1].code = 500
               /\ ev'.ops = {}
               /\ self' = self /\ socket_map' = socket_map /\ disk' = disk]_vars

C3_Gated ==
    /\ ev.kind = "cmd" /\ ev.cmd = "RETR" /\ ev.arg = "n" /\ ev.method = ""
    /\ ev.out = <<Reply(530, "Log in with USER and PASS first.")>>
    /\ ~self.authenticated /\ self.username = "bob"

\* the path-scoped commands of C4
C4_PathScoped ==
    {"APPE", "CWD", "DELE", "MDTM", "NLST", "MLSD", "MLST", "RETR", "RMD",
     "SIZE", "STOR", "XCWD", "XRMD"}

\* C4: an authenticated path-scoped command whose argument translates to a
\* host path that fails validpath is answered 550 "... outside the user's
\* root directory", its handler is not invoked, and the session, the data
\* endpoints and the file system are unchanged
C4_Outside ==
    [][(/\ IsCommand /\ self.authenticated
        /\ ev'.cmd \in C4_PathScoped
        /\ ~validpath(disk, self, ftp2fs(self, ev'.arg))) =>
          /\ ev'.out = <<ReplyOn(550,
                                 "points to a path which is outside the user's root directory.",
                                 ftpnorm(self, ev'.arg))>>
          /\ ev'.method = "" /\ ev'.ops = {}
          /\ self' = self /\ socket_map' = socket_map /\ disk' = disk]_vars

C4_Refused ==
    /\ ev.kind = "cmd" /\ ev.cmd = "RETR" /\ ev.arg = "out/x" /\ ev.method = ""
    /\ Len(ev.out) = 1 /\ ev.out[1].code = 550
    /\ self.authenticated /\ self.restart_position = 1 /\ self.rnfr # <<>>
    /\ self.data_server # None /\ self.out_dtp_queue # <<>>

\* C5: a file-system call of a command's handler is on a host path that
\* validpath accepts (found_terminator has checked it, or it lies in the
\* user's root all the same)
C5_Contained ==
    ev.kind = "cmd" =>
        \A o \in ev.ops : o.path \in ev.checked \/ validpath(disk, self, o.path)

\* C6: a failed PASS increments attempted_logins; the one that brings it to
\* max_login_attempts is answered "530 Maximum login attempts.
\* Disconnecting." and closes the session; an open session has
\* attempted_logins < max_login_attempts
C6_Attempts ==
    /\ [](~self.closed => self.attempted_logins < max_login_attempts)
    /\ [][FailedPass =>
            /\ self'.attempted_logins = self.attempted_logins + 1
            /\ self'.attempted_logins = max_login_attempts =>
                  /\ ev'.out = <<Reply(530, "Maximum login attempts. Disconnecting.")>>
                  /\ self'.closed]_vars

C6_Disconnected ==
    /\ ev.kind = "cmd" /\ ev.method = "PASS" /\ self.closed
    /\ self.attempted_logins = max_login_attempts
    /\ ev.out = <<Reply(530, "Maximum login attempts. Disconnecting.")>>

\* what C7 says of a failed PASS: the reply is "530 Authentication failed.",
\* the username is cleared, and the replies and the session are the same
\* with the user known under another password and with the user unknown
C7_Same ==
    /\ ev'.out = <<Reply(530, "Authentication failed.")>>
    /\ self'.username = ""
    /\ PassUnder(WithUser(self.username)).out = PassUnder(WithoutUser(self.username)).out
    /\ PassUnder(WithUser(self.username)).h = PassUnder(WithoutUser(self.username)).h

\* C7 as stated: every failed PASS that leaves attempted_logins below
\* max_login_attempts is answered "530 Authentication failed." and clears
\* the username, the same for an unknown user and a known user with a wrong
\* password
C7_Uniform ==
    [][(FailedPass /\ self'.attempted_logins < max_login_attempts) => C7_Same]_vars

\* C7, amended: the same, for every username other than "anonymous"
C7_UniformNamed ==
    [][(/\ FailedPass /\ self'.attempted_logins < max_login_attempts
        /\ self.username # "anonymous") => C7_Same]_vars

C7_Failed ==
    /\ ev.kind = "cmd" /\ ev.method = "PASS" /\ ev.arg = "wrong"
    /\ ev.out = <<Reply(530, "Authentication failed.")>>
    /\ ~self.authenticated /\ self.username = "" /\ self.attempted_logins = 2

\* C8: USER is answered with one 331 reply, and the reply and the session
\* after it are the same whether the authorizer has a user of that name or
\* not
C8_User ==
    [][(IsCommand /\ ev'.method = "USER") =>
          /\ Len(ev'.out) = 1 /\ ev'.out[1].code = 331
          /\ \A users \in {WithUser(ev'.arg), WithoutUser(ev'.arg)} :
                /\ UserUnder(users).out = ev'.out
                /\ UserUnder(users).h = self'
                /\ Collect(UserUnder(users)).map = socket_map']_vars

C8_Asked ==
    /\ ev.kind = "cmd" /\ ev.method = "USER" /\ ev.arg = "eve"
    /\ ev.out = <<Reply(331, "Previous account information was flushed, send password.")>>
    /\ self.username = "eve" /\ ~has_user(user_table, "eve")

\* the commands of C9 that change the file system, and their changing calls
C9_Writing ==
    {"STOR", "APPE", "STOU", "MKD", "XMKD", "RMD", "XRMD", "DELE", "RNFR", "RNTO"}

C9_Mutating == {"open w", "mkstemp", "mkdir", "rmdir", "remove", "rename"}

\* the step is the handler of a command of C9, for a user without WRITE
C9_Unprivileged ==
    /\ IsCommand /\ self.authenticated
    /\ ev'.method \in C9_Writing /\ "w" \notin user_table[self.username].perm

\* no call that changes the file system is issued, and none that opens a
\* file for a user without READ
C9_Safe ==
    /\ C9_Unprivileged =>
          /\ {o \in ev'.ops : o.op \in C9_Mutating} = {}
          /\ disk' = disk
    /\ (/\ IsCommand /\ self.authenticated /\ ev'.method = "RETR"
        /\ "r" \notin user_table[self.username].perm) =>
          /\ ev'.out = Refused("RETR")
          /\ ev'.ops = {}

\* the refusal that comes before the check of the permission
C9_Earlier ==
    IF ev'.method \in {"APPE", "STOU"} /\ self.restart_position # 0
    THEN <<Reply(550, "Can't " \o ev'.method \o " while REST request is pending.")>>
    ELSE IF ev'.method \in {"RMD", "XRMD"} /\ ftp2fs(self, ev'.marg) = self.root.comps
    THEN <<Reply(550, "Can't remove root directory.")>>
    ELSE IF ev'.method = "RNTO" /\ self.rnfr = <<>>
    THEN <<Reply(503, "Bad sequence of commands: use RNFR first.")>>
    ELSE <<>>

\* the verb in the refusal of the permission: APPE is refused by ftp_STOR,
\* the X commands by the handlers they stand for
C9_Verb ==
    CASE ev'.method = "APPE" -> "STOR"
      [] ev'.method = "XMKD" -> "MKD"
      [] ev'.method = "XRMD" -> "RMD"
      [] ev'.method = "RNFR" -> "RNRF"
      [] OTHER -> ev'.method

C10_Rein ==
    (ev.kind = "cmd" /\ ev.method = "REIN") =>
        /\ ~self.authenticated /\ self.username = ""
        /\ self.attempted_logins = 0 /\ self.current_type = "a"
        /\ self.restart_position = 0 /\ self.rnfr = <<>>
        /\ ~self.quit_pending
        /\ self.in_dtp_queue = <<>> /\ self.out_dtp_queue = <<>>

C10_Reinitialized ==
    /\ ev.kind = "cmd" /\ ev.method = "REIN"
    /\ ev.out = <<Reply(230, "Ready for new user.")>>
    /\ self.cwd = <<"d">> /\ self.data_channel # None

\* the step is a REIN, or a USER of a session that is logged in
Flushing ==
    /\ ev.kind = "cmd"
    /\ \/ ev.method = "REIN"
       \/ /\ ev.method = "USER"
          /\ ev.out = <<Reply(331, "Previous account information was flushed, send password.")>>

\* C11: right after the handler of REIN the working directory of the session
\* is "/", whatever directory the session had changed into
C11_Cwd == (ev.kind = "cmd" /\ ev.method = "REIN") => self.cwd = <<>>

\* C12: right after REIN, or a USER of a session that is logged in, the
\* session has no data endpoint: no listening socket, no open data channel,
\* none registered with the event loop
C12_NoEndpoint ==
    Flushing =>
        /\ self.data_server = None /\ self.data_channel = None
        /\ OpenDtps(socket_map) = {}

\* C13: after a RETR, STOR or APPE with an argument, sent by a session that
\* is logged in, restart_position is 0, whether a transfer started or the
\* command failed
C13_RestConsumed ==
    (/\ ev.kind = "cmd" /\ ev.cmd \in {"RETR", "STOR", "APPE"} /\ ev.arg # ""
     /\ self.authenticated) => self.restart_position = 0

\* data is the bytes of a file of length size from offset pos to its end,
\* in order
IsSuffix(data, pos, size) ==
    /\ Len(data) = size - pos
    /\ \A i \in 1..Len(data) : data[i] = pos + i

Complete == Reply(226, "Transfer complete.")

\* the data channel of the session after the step, be it closed by the step
AfterStep == IF ev'.dtp # <<>> THEN ev'.dtp[1] ELSE socket_map'[self.data_channel]

\* the handler of RETR runs in type BINARY on a file it can open
Retrieving ==
    /\ IsCommand /\ ev'.method = "RETR" /\ self.current_type = "i"
    /\ r_perm(user_table, self.username)
    /\ CanOpen(disk, ftp2fs(self, ev'.arg), "r")

\* what the handler of RETR does with a file of length size when
\* restart_position is pos
Retrieved(pos, size) ==
    IF pos > size
    THEN /\ ev'.out = <<Reply(554, "Invalid REST parameter")>>
         /\ socket_map' = socket_map
         /\ self'.out_dtp_queue = self.out_dtp_queue
    ELSE IF self.data_channel = None
    THEN /\ self'.out_dtp_queue # <<>>
         /\ IsSuffix(self'.out_dtp_queue[1].data.data, pos, size)
    ELSE IsSuffix(AfterStep.asked, pos, size)

\* C14: a RETR in type BINARY of a file of length L with restart_position k
\* hands the data channel the L-k bytes of the file from offset k, in order
\* (at once, or when the data connection is made), and a data channel that
\* ends with 226 has delivered to the peer just the bytes it was handed, in
\* order; with k > L the reply is 554 and no byte is queued or sent
C14_Retr ==
    /\ []((/\ ev.dtp # <<>> /\ \E i \in DOMAIN ev.out : ev.out[i] = Complete
           /\ ~ev.dtp[1].receive /\ ev.dtp[1].types = {"i"}) =>
             ev.dtp[1].wire = ev.dtp[1].asked)
    /\ [][/\ Retrieving =>
                Retrieved(self.restart_position, getsize(disk, ftp2fs(self, ev'.arg)))
          /\ (/\ ev'.kind = "accept" /\ self.out_dtp_queue # <<>>
              /\ self'.data_channel # None) =>
                /\ socket_map'[self'.data_channel].asked = self.out_dtp_queue[1].data.data
                /\ self'.out_dtp_queue = <<>>]_vars

C14_Delivered ==
    /\ ev.kind = "write" /\ ev.out = <<Complete>>
    /\ ev.dtp # <<>> /\ ev.dtp[1].types = {"i"}
    /\ ev.dtp[1].wire = <<MaxBytes>> /\ ev.dtp[1].sent = 1

\* C15: rnfr is set only by a RNFR whose host path lexically exists, to the
\* argument of that RNFR, and a RNFR that fails leaves it as it was; after a
\* RNTO whose handler finds rnfr set, rnfr is None whatever became of the
\* rename; a RNTO whose handler finds rnfr None is answered 503 and renames
\* nothing
C15_Rnfr ==
    [][/\ (self'.rnfr # <<>> /\ self'.rnfr # self.rnfr) =>
              IsCommand /\ ev'.method = "RNFR"
       /\ (IsCommand /\ ev'.method = "RNFR") =>
              IF /\ ev'.out = <<Reply(350, "Ready for destination name.")>>
                 /\ lexists(disk, ftp2fs(self, ev'.arg))
              THEN self'.rnfr = <<ev'.arg>>
              ELSE /\ self'.rnfr = self.rnfr
                   /\ Len(ev'.out) = 1 /\ ev'.out[1].code = 550
       /\ (IsCommand /\ ev'.method = "RNTO") =>
              IF self.rnfr # <<>> THEN self'.rnfr = <<>>
              ELSE /\ ev'.out = <<Reply(503, "Bad sequence of commands: use RNFR first.")>>
                   /\ ev'.ops = {} /\ disk' = disk /\ self' = self]_vars

C15_Consumed ==
    /\ ev.kind = "cmd" /\ ev.method = "RNTO" /\ ev.arg = "d"
    /\ ev.out = <<ReplyOn(550, "OS error.", <<>>)>>
    /\ FsOp("rename", <<"home", "alice", "f">>) \in ev.ops
    /\ self.rnfr = <<>> /\ disk = InitDisk

\* C16: a transfer is pending (out_dtp_queue or in_dtp_queue is set) only
\* while the session has a listening or connecting data endpoint and no
\* open data channel, and never in both queues at once
C16_Pending ==
    /\ (self.out_dtp_queue # <<>> \/ self.in_dtp_queue # <<>>) =>
          /\ self.data_channel = None
          /\ \E i \in OpenDtps(socket_map) : socket_map[i].kind \in {"passive", "active"}
    /\ ~(self.out_dtp_queue # <<>> /\ self.in_dtp_queue # <<>>)

\* the commands that transfer data
Transfers == {"LIST", "NLST", "MLSD", "RETR", "STOR", "APPE", "STOU"}

\* C17: a transfer command that passes its checks is answered 125 exactly
\* when the data channel is open, and 150 with the payload or sink queued
\* otherwise; when the data channel next becomes open it is handed what is
\* queued (the payload to send, or the file to receive into) and both queues
\* are empty afterwards
C17_Handover ==
    [][/\ (/\ IsCommand /\ ev'.method \in Transfers
           /\ ev'.out # <<>> /\ ev'.out[1].code \in {125, 150}) =>
              /\ ev'.out[1].code = 125 <=> self.data_channel # None
              /\ ev'.out[1].code = 150 =>
                    IF ev'.method \in {"STOR", "APPE", "STOU"}
                    THEN self'.in_dtp_queue # <<>>
                    ELSE self'.out_dtp_queue # <<>>
       /\ (self.data_channel = None /\ self'.data_channel # None) =>
              /\ self'.out_dtp_queue = <<>> /\ self'.in_dtp_queue = <<>>
              /\ self.out_dtp_queue # <<>> =>
                    socket_map'[self'.data_channel].asked = self.out_dtp_queue[1].data.data
              /\ self.in_dtp_queue # <<>> =>
                    /\ socket_map'[self'.data_channel].receive
                    /\ socket_map'[self'.data_channel].file = self.in_dtp_queue]_vars

\* C18: after ABOR the session has no data endpoint of any kind, listening,
\* connecting or open, and "225 No transfer to abort." is the reply only
\* when it had none
C18_Aborted ==
    [][(IsCommand /\ ev'.method = "ABOR") =>
          /\ OpenDtps(socket_map') = {}
          /\ self'.data_server = None /\ self'.data_channel = None
          /\ ev'.out = <<Reply(225, "No transfer to abort.")>> =>
                OpenDtps(socket_map) = {}]_vars

\* C19: ABOR closes an open data channel; when the channel has moved a byte
\* the replies are "426 Connection closed; transfer aborted." and then
\* "226 ABOR command successful.", with no "226 Transfer complete."; when it
\* has moved none the only reply is "225 ABOR command successful; data
\* channel closed."
C19_Abort ==
    [][(IsCommand /\ ev'.method = "ABOR" /\ self.data_channel # None) =>
          /\ self'.data_channel = None
          /\ ~socket_map'[self.data_channel].open
          /\ ev'.dtp = <<socket_map[self.data_channel]>>
          /\ ev'.out =
                IF socket_map[self.data_channel].sent
                       + socket_map[self.data_channel].recvd > 0
                THEN <<Reply(426, "Connection closed; transfer aborted."),
                       Reply(226, "ABOR command successful.")>>
                ELSE <<Reply(225, "ABOR command successful; data channel closed.")>>]_vars

C19_Aborting ==
    /\ ev.kind = "cmd" /\ ev.method = "ABOR"
    /\ ev.out = <<Reply(426, "Connection closed; transfer aborted."),
                  Reply(226, "ABOR command successful.")>>
    /\ ev.dtp # <<>> /\ ev.dtp[1].receive /\ ev.dtp[1].recvd = 1
    /\ self.data_channel = None /\ OpenDtps(socket_map) = {}

\* the listening sockets in the socket map
Listening(map) == {i \in OpenDtps(map) : map[i].kind = "passive"}

\* C20: a connection to the passive port from an address other than the
\* peer's is answered 425 and changes nothing: the listener stays open, the
\* pending transfer and the session are as before; a connection from the
\* peer's address becomes the open data channel of the session, and the
\* listener is closed, so that no other connection is accepted for the PASV
C20_Accept ==
    [][ev'.kind = "accept" =>
          IF ev'.arg = "foreign"
          THEN /\ ev'.out = <<Reply(425, "Rejected data connection from foreign address.")>>
               /\ self' = self /\ socket_map' = socket_map /\ disk' = disk
               /\ self.data_server \in Listening(socket_map')
          ELSE /\ Listening(socket_map') = {}
               /\ self'.data_server = None
               /\ self'.data_channel \in OpenDtps(socket_map')
               /\ socket_map'[self'.data_channel].kind = "handler"]_vars

C20_Rejected ==
    /\ ev.kind = "accept" /\ ev.arg = "foreign"
    /\ ev.out = <<Reply(425, "Rejected data connection from foreign address.")>>
    /\ self.data_server \in Listening(socket_map) /\ self.data_channel = None
    /\ self.out_dtp_queue # <<>>

\* the PORT arguments that are not six comma-separated integers in 0..255
Malformed == {"bogus", "127,0,0,1,a,b", "127,0,0,1,4,256"}

\* C21: a PORT whose argument is not six comma-separated integers in 0..255
\* is answered "501 Invalid PORT format." and nothing else happens: no
\* connection is attempted, no data endpoint is closed, the session stays
\* open and as it was
C21_Invalid ==
    [][(IsCommand /\ ev'.method = "PORT" /\ ev'.marg \in Malformed) =>
          /\ ev'.out = <<Reply(501, "Invalid PORT format.")>>
          /\ self' = self /\ socket_map' = socket_map]_vars

\* a PORT has passed validation and its connect is in progress
PortPending ==
    /\ ev.kind = "cmd" /\ ev.method = "PORT" /\ ev.marg \notin Malformed
    /\ ev.out = <<>> /\ ~self.closed

\* the end of a connect puts 200 or 425 on the control channel
PortReplied ==
    /\ ev.kind \in {"connect", "connect error"}
    /\ \E i \in DOMAIN ev.out : ev.out[i].code \in {200, 425}

\* C22: a PORT that passes validation is eventually answered, 200 when the
\* connection is established and 425 when it fails, be the failure reported
\* by connect() or later by the event loop (unless the session ends first)
C22_Answered == PortPending ~> (PortReplied \/ self.closed)

\* C23: the replies come in the order of the commands: when the end of a
\* connect puts the 200 of a PORT on the control channel, the event before
\* it has not answered a command, which would be one received after that PORT
C23_Ordered ==
    [][(ev'.kind = "connect" /\ ev.kind = "cmd") => ev.out = <<>>]_vars

\* the replies of the event that say "226 Transfer complete."
Completions == {i \in DOMAIN ev'.out : ev'.out[i] = Complete}

\* C24: "226 Transfer complete." is put on the control channel only by an
\* event that closes the data channel of the transfer: for a channel that
\* sends, one that has reached the end-of-stream mark with the bytes handed to
\* the channel before it written, in order; for a channel that receives, the
\* read of the peer's end of stream
C24_Complete ==
    [][Completions # {} =>
          /\ ev'.dtp # <<>>
          /\ IF ev'.kind = "read" THEN ev'.arg = "eof"
             ELSE /\ ev'.dtp[1].finished
                  /\ Len(ev'.dtp[1].wire) <= Len(ev'.dtp[1].asked)
                  /\ ev'.dtp[1].wire = SubSeq(ev'.dtp[1].asked, 1, Len(ev'.dtp[1].wire))
                  /\ ev'.dtp[1].fifo = <<>> => ev'.dtp[1].wire = ev'.dtp[1].asked]_vars

\* the session has answered a QUIT
QuitAnswered ==
    /\ ev.kind = "cmd" /\ ev.method = "QUIT"
    /\ \E i \in DOMAIN ev.out : ev.out[i].code = 221

\* C25: a session that has answered QUIT is eventually closed, also when a
\* data channel is open, and also when that data channel is idle
C25_Closed == QuitAnswered ~> self.closed

\* C26: once the session has answered 221 to QUIT, the next line it is
\* sent reaches no handler, be the session closing or waiting for its data
\* channel
C26_Quit ==
    [][(QuitAnswered /\ ev'.kind = "cmd") => ev'.method = ""]_vars

\* C27: with max_cons = N > 0 a control connection is refused with 421 "Too
\* many connections. Service temporary unavailable." exactly when the
\* sessions, the new one among them, are more than N; the listening socket
\* and the data sockets of the sessions do not count
C27_MaxCons ==
    [][(ev'.kind = "serve" /\ ftpd.max_cons > 0) =>
          (ev'.out = <<Reply(421, "Too many connections. Service temporary unavailable.")>>
              <=> Controls + 1 > ftpd.max_cons)]_vars

\* the open sessions from ip that were greeted with 220
Greeted(ip) ==
    Cardinality({p \in PeerIds : /\ ~ftpd.peers[p].closed /\ ftpd.peers[p].banner
                                /\ ftpd.peers[p].remote_ip = ip})
    + (IF ~self.closed /\ self.banner /\ self.remote_ip = ip THEN 1 ELSE 0)

\* with max_cons_per_ip = M > 0, at most M open sessions of an address were
\* greeted
C28_AtMost ==
    ftpd.max_cons_per_ip > 0 => \A ip \in Ips : Greeted(ip) <= ftpd.max_cons_per_ip

\* a connection that would be one more than M is answered 421 and not 220
C28_Turned ==
    (/\ ev'.kind = "serve" /\ ftpd.max_cons_per_ip > 0
     /\ Greeted(ev'.arg) >= ftpd.max_cons_per_ip) =>
        /\ \E i \in DOMAIN ev'.out : ev'.out[i].code = 421
        /\ \A i \in DOMAIN ev'.out : ev'.out[i].code # 220

\* no line of a session that was not greeted reaches a handler
C28_Unserved ==
    (/\ ev'.kind = "cmd" /\ ev'.peer \in PeerIds
     /\ ~ftpd.peers[ev'.peer].banner) => ev'.method = ""

\* C28: with max_cons_per_ip = M > 0 at most M open sessions from one
\* address were greeted with 220; a connection that would be one more gets
\* 421 and no 220, and no command it sends reaches a handler before it is
\* closed
C28_PerIp == []C28_AtMost /\ [][C28_Turned /\ C28_Unserved]_vars

\* the open sessions from ip
From(ip) ==
    Cardinality({p \in PeerIds : ~ftpd.peers[p].closed /\ ftpd.peers[p].remote_ip = ip})
    + (IF ~self.closed /\ self.remote_ip = ip THEN 1 ELSE 0)

\* C29: ip_map holds each address as many times as there are sessions from
\* it that were accepted and are not closed, whichever way the sessions
\* before them were closed
C29_IpMap ==
    /\ \A i \in DOMAIN ftpd.ip_map : ftpd.ip_map[i] \in Ips
    /\ \A ip \in Ips : Count(ftpd.ip_map, ip) = From(ip)

C29_Left ==
    /\ ev.kind = "flushed" /\ ev.peer = 0
    /\ self.closed /\ self.quit_pending
    /\ \A p \in PeerIds : ~ftpd.peers[p].closed /\ ftpd.peers[p].remote_ip = remote_ip
    /\ Len(ftpd.ip_map) = MaxPeers

\* C30: once the session is closed none of its data endpoints (a listening
\* socket, a connect in progress, an open data channel) is left in the
\* socket map
C30_Owned == self.closed => OpenDtps(socket_map) = {}

\* the commands the server lists as not implemented
NotImplemented == {"ACCT", "SITE", "SMNT"}

\* C31: ACCT, SITE and SMNT are answered 502, before and after login, and
\* leave the session, its sockets and the files alone
C31_NotImplemented ==
    [][(IsCommand /\ ev'.cmd \in NotImplemented) =>
          /\ Len(ev'.out) = 1 /\ ev'.out[1].code = 502
          /\ self' = self /\ socket_map' = socket_map /\ disk' = disk]_vars

TooLong == Reply(500, "Command too long.")

\* C32: a line longer than 2048 bytes is answered 500 and discarded: what
\* arrives of it after the buffer was flushed, up to its CRLF, is not parsed
\* and answered as a command
C32_Discarded ==
    [][(/\ ev.kind = "piece" /\ ev.out = <<TooLong>>
        /\ ev'.kind = "line") =>
          (ev'.method = "" /\ ev'.out = <<>> /\ self' = self /\ disk' = disk)]_vars

\* C33: in TYPE A the file that was stored from the bytes FileProducer made
\* of a file is that file byte for byte, however the bytes were split into
\* chunks
C33_RoundTrip == calc.step = "done" => calc.stored = calc.file

\* the data channels that send, the one the last event closed among them;
\* no file goes through the wrapper of TYPE A
Senders ==
    {o \in {socket_map[id] : id \in DtpIds} \cup {ev.dtp[i] : i \in DOMAIN ev.dtp} :
        o.kind = "handler" /\ ~o.receive /\ o.types \subseteq {"i"}}

\* C34: the bytes written to the data socket are the bytes of the queued
\* pieces in the order they were queued, none lost, doubled or out of place;
\* tot_bytes_sent is their number, and the transfer is marked finished only
\* when all of them are written
C34_Sent ==
    \A o \in Senders :
        /\ Len(o.wire) <= Len(o.asked)
        /\ o.wire = SubSeq(o.asked, 1, Len(o.wire))
        /\ o.sent = Len(o.wire)
        /\ o.finished => o.wire = o.asked

\* C35: validpath(p) is true exactly when the resolved p, a separator
\* appended, begins with the resolved root, a separator appended; so it is
\* for the paths inside a root that is reached through a symbolic link
C35_Valid ==
    calc.step = "valid" =>
        (calc.valid <=> IsPrefix(realpath(LinkedDisk, calc.root.comps),
                                 realpath(LinkedDisk, calc.path)))

\* the session of the translation
Translating == [root |-> calc.root, cwd |-> calc.cwd]

Climbing ==
    /\ IsCommand /\ ev'.cmd = "CWD" /\ ev'.arg = "../../etc"
    /\ self.authenticated /\ Len(self.cwd) <= 1

Outside(path) ==
    ReplyOn(550, "points to a path which is outside the user's root directory.", path)

\* C37: a CWD whose argument climbs above the virtual root through ".."
\* is answered 550 "/etc" points to a path which is outside the user's root
\* directory, and leaves cwd and the rest of the session as they were
C37_Denied ==
    [][Climbing =>
          /\ ev'.out = <<Outside(<<"etc">>)>>
          /\ self' = self /\ socket_map' = socket_map /\ disk' = disk]_vars

\* C37, as the code has it: the ".." that would climb above "/" are
\* dropped, so the command is a CWD /etc: with a directory etc in the root
\* it is answered 250 and cwd is "/etc", without one it is answered 550 for
\* the error of chdir and changes nothing; the host path it enters is the
\* etc of the root
C37_Clamped ==
    [][Climbing =>
          /\ ev'.ops = {FsOp("chdir", Append(self.root.comps, "etc"))}
          /\ socket_map' = socket_map /\ disk' = disk
          /\ IF isdir(disk, Append(self.root.comps, "etc"))
             THEN /\ ev'.out = <<ReplyOn(250, "is the current directory.", <<"etc">>)>>
                  /\ self' = [self EXCEPT !.cwd = <<"etc">>]
             ELSE /\ ev'.out = <<ReplyOn(550, "OS error.", <<>>)>>
                  /\ self' = self]_vars

C37_Below ==
    /\ ev.kind = "cmd" /\ ev.cmd = "CWD" /\ ev.arg = "../../etc"
    /\ ev.out = <<ReplyOn(250, "is the current directory.", <<"etc">>)>>
    /\ self.cwd = <<"etc">> /\ self.username = "alice"
    /\ <<"home", "alice", "etc">> \in disk.dirs

\* cwd is normalized: no component is empty, "." or ".." (as the components
\* of an absolute path it starts with the separator)
C40_Normalized == \A i \in DOMAIN self.cwd : self.cwd[i] \notin {"", ".", ".."}

\* the host path of cwd lies lexically inside the root
C40_Inside ==
    self.root.set => IsPrefix(self.root.comps, ftp2fsP(self, Path(1, self.cwd)))

\* a CWD or CDUP answered 550 leaves cwd as it was, and so does a CDUP at "/"
C40_Kept ==
    /\ (/\ IsCommand /\ ev'.cmd \in {"CWD", "CDUP", "XCWD", "XCUP"}
        /\ \E i \in DOMAIN ev'.out : ev'.out[i].code = 550) => self'.cwd = self.cwd
    /\ (IsCommand /\ ev'.cmd \in {"CDUP", "XCUP"} /\ self.cwd = <<>>) => self'.cwd = <<>>

\* C40: in every state of a session cwd is an absolute, normalized virtual
\* path whose host path ftp2fs(cwd) lies lexically inside the root; a CWD or
\* CDUP that fails with 550 leaves cwd unchanged, and CDUP at "/" leaves cwd
\* at "/"
C40_Cwd == [](C40_Normalized /\ C40_Inside) /\ [][C40_Kept]_vars

C40_Failed ==
    /\ ev.kind = "cmd" /\ ev.cmd = "CWD" /\ ev.arg = "d/../f"
    /\ ev.out = <<ReplyOn(550, "OS error.", <<>>)>>
    /\ self.cwd = <<"d">> /\ self.authenticated

\* C39: after a failure on a data endpoint the session refers to no closed
\* endpoint: data_channel is None once the DTPHandler is closed, and
\* data_server is None once the listening socket is closed, so that STAT
\* reports no passive channel waiting for a connection nobody can accept
C39_NoClosed ==
    /\ self.data_channel # None => socket_map[self.data_channel].open
    /\ self.data_server # None => socket_map[self.data_server].open

\* C38: every transfer command answered 125 or 150 gets its own final reply,
\* one 226 or one 426, when the data connection is made and the peer reads:
\* again and again the final replies are as many as the 125 and 150, also
\* when a transfer command is sent before the data connection of the one
\* before opens or before its transfer ends
C38_Final == []<>(calc.ended = calc.started)

====
